---- MODULE Spec2Model ----
(***************************************************************************)
(* State-machine model of the optika order-taking application              *)
(* (src/optika/views.py over the tables of src/optika/models.py).          *)
(*                                                                         *)
(* Every view function is an operator from (database, session, request)   *)
(* to (database, session, HTTP status); the actions apply one view to the  *)
(* current state.  Strings are TLA+ strings; Python None and SQL NULL are  *)
(* the value NONE.  The Cyrillic category labels of CATEGORY_MODEL are     *)
(* written in Latin transliteration.  Columns that no view reads back to   *)
(* take a decision (narx, rasm, phone, created_at) are left out.           *)
(***************************************************************************)
EXTENDS Integers, Sequences, FiniteSets, TLC

\* ---------------------------------------------------------------- bounds
\* product rows ever inserted, all product tables together
MaxRows == 2
\* largest quantity a stored row may reach in the explored runs
MaxQty == 2
\* rows ever inserted into each administrative table (Users, TelegramChat,
\* FeedBack) beyond the initial ones
MaxAdminRows == 1
MaxRehash == 2
\* most rows and most header lines handed to the PDF builder
MaxPdfRows == 90
MaxPdfHeaderLines == 3

\* db: the tables; session: the session of each browser; resp: the status of
\* the last answer; sharing: for each browser, the share_all_archives_telegram
\* request it has under way between reading the archives and flagging them;
\* log: what has been handed out so far (the orders and archives whose PDF was
\* downloaded, the archives whose PDF reached a Telegram chat, and the count
\* reported by the last share request)
VARIABLES db, session, resp, sharing, log
vars == <<db, session, resp, sharing, log>>

\* ------------------------------------------------------------ Python values
NONE == "None"

\* bool(v) for the string-or-None values the views test with "or" / "not"
Truthy(v) == v # NONE /\ v # ""

\* a or b
Or(a, b) == IF Truthy(a) THEN a ELSE b

\* str.strip() on the strings the requests carry
Strip(s) ==
  CASE s = " a" -> "a"
    [] s = " " -> ""
    [] s = "p1 " -> "p1"
    [] OTHER -> s

\* case folding used by the __iexact lookups
Fold(s) ==
  CASE s = "A" -> "a"
    [] s = "T" -> "t"
    [] s = "kaplya" -> "Kaplya"
    [] OTHER -> s

IExact(a, b) == a # NONE /\ b # NONE /\ Fold(a) = Fold(b)

_clean_str(value) == Strip(Or(value, ""))

\* int(value) on the JSON values of the requests (a number or numeric string
\* is written as its digits); TypeError / ValueError give the default
_to_int(value, default) ==
  CASE value = "-1" -> -1
    [] value = "0" -> 0
    [] value = "1" -> 1
    [] value = "2" -> 2
    [] value = "3" -> 3
    [] OTHER -> default

\* ------------------------------------------------------------------ tables
ProductTables ==
  {"Rangsiz", "Rangli", "Kapliya", "Aksessuar", "Antikompyuter", "Oprava", "Gatoviy"}

AllTables ==
  ProductTables \cup {"Order", "Archive", "ArchiveItem", "Users", "FeedBack", "TelegramChat"}

\* model fields (f.name for f in model_cls._meta.fields) that the views use
FieldNames(model_cls) ==
  IF model_cls = "Gatoviy"
    THEN {"id", "user_id", "model", "nomi", "dioptriya", "miqdor", "izoh", "filial", "category"}
    ELSE {"id", "user_id", "nomi", "turi", "dioptriya", "miqdor", "izoh", "category"}

\* columns declared without null=True: an insert of NULL raises IntegrityError
NotNullTuri(model_cls) == model_cls \in {"Aksessuar", "Oprava"}

CATEGORY_MODEL ==
  [c \in {"Kontakt linza", "Tsvetnaya linza", "Kaplya", "Aksessuar", "Antikomp", "Oprava", "Gotovye"} |->
     CASE c = "Kontakt linza" -> "Rangsiz"
       [] c = "Tsvetnaya linza" -> "Rangli"
       [] c = "Kaplya" -> "Kapliya"
       [] c = "Aksessuar" -> "Aksessuar"
       [] c = "Antikomp" -> "Antikompyuter"
       [] c = "Oprava" -> "Oprava"
       [] c = "Gotovye" -> "Gatoviy"]

\* CATEGORY_MODEL.get(cat)
CategoryModelGet(cat) == IF cat \in DOMAIN CATEGORY_MODEL THEN CATEGORY_MODEL[cat] ELSE NONE

\* QuerySet.first(): the row with the least primary key, or None
First(rows) == IF rows = {} THEN NONE ELSE CHOOSE r \in rows : \A q \in rows : r.id <= q.id

\* the primary keys of a set of rows
Ids(rows) == {r.id : r \in rows}

\* the id an insert into a table receives (AutoField: never reused)
NextId(d, table) == d.seq[table] + 1

\* ------------------------------------------------------------ session helpers
EmptySession == [UserId |-> NONE, FullName |-> NONE, Role |-> NONE, Branch |-> NONE]

\* redirect(to): the response that sends the browser to a URL, a route name
\* being resolved against the URL table (the unqualified names "login" and
\* "index" are taken to resolve like "optika:login" and "optika:index")
redirect(to) ==
  CASE to \in {"login", "optika:login"} -> "redirect:/login/"
    [] to \in {"index", "optika:index"} -> "redirect:/"
    [] OTHER -> "redirect:" \o to

_session_user_or_redirect(sess) == IF ~Truthy(sess.UserId) THEN redirect("login") ELSE NONE

\* a guard that lets every session through
NoGuard(sess) == NONE

_session_user_or_json_401(sess) == IF ~Truthy(sess.UserId) THEN "401" ELSE NONE

\* a role check that lets every role through
NoRoleCheck(sess) == NONE

_admin_or_403(sess) == IF sess.Role # "Admin" THEN "403" ELSE NONE

_admin_or_redirect(sess) == IF sess.Role # "Admin" THEN redirect("index") ELSE NONE

_get_branch(sess) == Or(sess.Branch, "-")

_get_user_id(sess) == Or(sess.UserId, "")

_get_full_name(sess) == Or(sess.FullName, "")

\* ------------------------------------------------------ generic save helper
\* the filters of _merge_save_product_and_order: the merge key
MergeMatches(d, user_id, model_cls, category, nomi, turi, dioptriya) ==
  {p \in d.products[model_cls] :
     /\ p.user_id = user_id
     /\ IExact(p.category, category)
     /\ IExact(p.nomi, nomi)
     /\ (Truthy(dioptriya) => IExact(p.dioptriya, dioptriya))
     /\ (Truthy(turi) => ("turi" \in DOMAIN p /\ IExact(p.turi, turi)))}

\* a merge that leaves the existing row as it is
KeptRow(p, miqdor, turi, dioptriya, izoh, extra) == p

\* the "if existing:" assignments before existing.save()
MergedRow(p, miqdor, turi, dioptriya, izoh, extra) ==
  LET p1 == [p EXCEPT !.miqdor = @ + miqdor]
      p2 == IF turi # NONE /\ "turi" \in DOMAIN p THEN [p1 EXCEPT !.turi = turi] ELSE p1
      p3 == IF dioptriya # NONE THEN [p2 EXCEPT !.dioptriya = dioptriya] ELSE p2
      p4 == IF izoh # NONE THEN [p3 EXCEPT !.izoh = izoh] ELSE p3
  IN IF "model" \in DOMAIN p /\ "model" \in DOMAIN extra
       THEN [p4 EXCEPT !.model = IF extra.model # NONE THEN extra.model ELSE @,
                       !.filial = IF extra.filial # NONE THEN extra.filial ELSE @]
       ELSE p4

\* model_cls.objects.create(**safe_kwargs): the inserted row
CreatedRow(d, user_id, model_cls, category, nomi, miqdor, turi, dioptriya, izoh, extra) ==
  IF model_cls = "Gatoviy"
    THEN [id |-> NextId(d, model_cls), user_id |-> user_id, nomi |-> nomi,
          model |-> IF "model" \in DOMAIN extra /\ extra.model # NONE THEN extra.model ELSE "",
          dioptriya |-> dioptriya, miqdor |-> miqdor, izoh |-> izoh,
          filial |-> IF "filial" \in DOMAIN extra /\ extra.filial # NONE THEN extra.filial ELSE "-",
          category |-> category]
    ELSE [id |-> NextId(d, model_cls), user_id |-> user_id, nomi |-> nomi, turi |-> turi,
          dioptriya |-> dioptriya, miqdor |-> miqdor, izoh |-> izoh, category |-> category]

\* Order.objects.create(...) for a product row (both branches build it alike)
CreatedOrder(d, user_id, branch, category, p) ==
  [id |-> NextId(d, "Order"), user_id |-> user_id, product_id |-> p.id, category |-> category,
   model |-> Or(p.nomi, IF "model" \in DOMAIN p THEN p.model ELSE ""),
   dioptriya |-> p.dioptriya, miqdor |-> p.miqdor, izoh |-> Or(p.izoh, "-"),
   filial |-> branch, is_sent |-> FALSE]

\* the pending Order rows of the "if existing:" branch lookup
PendingOrdersOf(d, user_id, product_id, category) ==
  {o \in d.orders :
     o.user_id = user_id /\ o.product_id = product_id
       /\ IExact(o.category, category) /\ ~o.is_sent}

\* the merge branch (lines 402-449), for the row "existing"
MergeBranch(d, user_id, branch, model_cls, category, existing, miqdor, turi, dioptriya, izoh, extra) ==
  LET e == MergedRow(existing, miqdor, turi, dioptriya, izoh, extra)
      d1 == [d EXCEPT !.products[model_cls] = {p \in @ : p.id # existing.id} \cup {e}]
      found == PendingOrdersOf(d1, user_id, e.id, category)
  IN IF found # {}
       THEN LET order == First(found)
                o2 == [order EXCEPT !.miqdor = e.miqdor, !.izoh = Or(e.izoh, "-"),
                                    !.dioptriya = e.dioptriya, !.filial = branch]
            IN [d1 EXCEPT !.orders = (@ \ {order}) \cup {o2}]
       ELSE [d1 EXCEPT !.orders = @ \cup {CreatedOrder(d1, user_id, branch, category, e)},
                       !.seq["Order"] = @ + 1]

\* the create branch (lines 451-492)
CreateBranch(d, user_id, branch, model_cls, category, nomi, miqdor, turi, dioptriya, izoh, extra) ==
  LET n == CreatedRow(d, user_id, model_cls, category, nomi, miqdor, turi, dioptriya, izoh, extra)
  IN [d EXCEPT !.products[model_cls] = @ \cup {n},
               !.seq[model_cls] = @ + 1,
               !.orders = @ \cup {CreatedOrder(d, user_id, branch, category, n)},
               !.seq["Order"] = @ + 1]

\* [db, ok]: ok is FALSE when the call raises (IntegrityError: NULL into the
\* NOT NULL column turi of Aksessuar / Oprava)
_merge_save_product_and_order(d, user_id, branch, model_cls, category, nomi, miqdor, turi, dioptriya, izoh, extra) ==
  LET matches == MergeMatches(d, user_id, model_cls, category, nomi, turi, dioptriya)
  IN IF matches # {}
       THEN [db |-> MergeBranch(d, user_id, branch, model_cls, category, First(matches),
                                miqdor, turi, dioptriya, izoh, extra),
             ok |-> TRUE]
       ELSE IF NotNullTuri(model_cls) /\ turi = NONE
         THEN [db |-> d, ok |-> FALSE]
         ELSE [db |-> CreateBranch(d, user_id, branch, model_cls, category, nomi, miqdor,
                                   turi, dioptriya, izoh, extra),
               ok |-> TRUE]

\* ----------------------------------------------------- save endpoints (JSON)
\* A request body is [list, items]: list says whether the parsed JSON is a
\* list, items are its elements.  An element is [kind, nomi, miqdor, turi,
\* dioptriya, izoh, category]; kind "dict" is a JSON object, any other kind a
\* JSON scalar, on which item.get raises AttributeError.
\*
\* _parse_json_body: request.body.decode("utf-8") raises UnicodeDecodeError on
\* a body that is not UTF-8 (a body says so in a field utf8); the except
\* clause catches json.JSONDecodeError only, so the error leaves the view and
\* the request is answered with the server-error page (status 500).
Undecodable(body) == "utf8" \in DOMAIN body /\ ~body.utf8
NoExtra == <<>>

Skip(d) == [db |-> d, ok |-> TRUE]

Raise(d) == [db |-> d, ok |-> FALSE]

\* "with transaction.atomic():" around a block: a raised exception rolls back
Atomic(d0, r) == IF r.ok THEN r.db ELSE d0

save_rangsiz_item(d, user_id, branch, item) ==
  IF item.kind # "dict" THEN Raise(d) ELSE
  LET nomi == _clean_str(item.nomi)
      dioptriya == _clean_str(item.dioptriya)
      turi == _clean_str(item.turi)
      category == Or(_clean_str(Or(item.category, "Kontakt linza")), "Kontakt linza")
      izoh == Or(item.izoh, "")
      miqdor == _to_int(item.miqdor, 0)
  IN IF ~Truthy(nomi) \/ miqdor <= 0 THEN Skip(d)
     ELSE _merge_save_product_and_order(d, user_id, branch, "Rangsiz", category, nomi, miqdor,
                                        Or(turi, NONE), Or(dioptriya, NONE), izoh, NoExtra)

save_rangli_item(d, user_id, branch, item) ==
  IF item.kind # "dict" THEN Raise(d) ELSE
  LET nomi == _clean_str(item.nomi)
      miqdor == _to_int(item.miqdor, 0)
  IN IF ~Truthy(nomi) \/ miqdor <= 0 THEN Skip(d)
     ELSE _merge_save_product_and_order(d, user_id, branch, "Rangli", "Tsvetnaya linza", nomi, miqdor,
                                        item.turi, NONE, Or(item.izoh, ""), NoExtra)

save_kapliya_item(d, user_id, branch, item) ==
  IF item.kind # "dict" THEN Raise(d) ELSE
  LET nomi == _clean_str(item.nomi)
      turi == _clean_str(item.turi)
      miqdor == _to_int(item.miqdor, 0)
  IN IF ~Truthy(nomi) \/ miqdor <= 0 THEN Skip(d)
     ELSE _merge_save_product_and_order(d, user_id, branch, "Kapliya", "Kaplya", nomi, miqdor,
                                        Or(turi, NONE), NONE, Or(item.izoh, ""), NoExtra)

save_aksessuar_item(d, user_id, branch, item) ==
  IF item.kind # "dict" THEN Raise(d) ELSE
  LET nomi == _clean_str(item.nomi)
      turi == _clean_str(item.turi)
      miqdor == _to_int(item.miqdor, 0)
      izoh == Or(item.izoh, "")
  IN IF ~Truthy(nomi) \/ miqdor <= 0 THEN Skip(d)
     ELSE _merge_save_product_and_order(d, user_id, branch, "Aksessuar", "Aksessuar", nomi, miqdor,
                                        Or(turi, NONE), NONE, izoh, NoExtra)

save_antik_item(d, user_id, branch, item) ==
  IF item.kind # "dict" THEN Raise(d) ELSE
  LET nomi == _clean_str(item.nomi)
      miqdor == _to_int(item.miqdor, 0)
      izoh == Or(item.izoh, "")
      turi == _clean_str(item.turi)
  IN IF ~Truthy(nomi) \/ miqdor <= 0 THEN Skip(d)
     ELSE _merge_save_product_and_order(d, user_id, branch, "Antikompyuter", "Antikomp", nomi, miqdor,
                                        Or(turi, NONE), NONE, izoh, NoExtra)

save_gatoviy_item(d, user_id, branch, item) ==
  IF item.kind # "dict" THEN Raise(d) ELSE
  LET model_name == _clean_str(item.nomi)
      dioptriya == _clean_str(item.dioptriya)
      miqdor == _to_int(item.miqdor, 0)
      izoh == Or(item.izoh, "")
  IN IF ~Truthy(model_name) \/ miqdor <= 0 THEN Skip(d)
     ELSE _merge_save_product_and_order(d, user_id, branch, "Gatoviy", "Gotovye", model_name, miqdor,
                                        NONE, Or(dioptriya, NONE), izoh,
                                        [model |-> model_name, filial |-> branch])

save_oprava_item(d, user_id, branch, item) ==
  IF item.kind # "dict" THEN Raise(d) ELSE
  LET nomi == _clean_str(item.nomi)
      turi == _clean_str(item.turi)
      miqdor == _to_int(item.miqdor, 0)
      izoh == Or(item.izoh, "")
  IN IF ~Truthy(nomi) \/ miqdor <= 0 THEN Skip(d)
     ELSE _merge_save_product_and_order(d, user_id, branch, "Oprava", "Oprava", nomi, miqdor,
                                        Or(turi, NONE), NONE, izoh, NoExtra)

\* the response of a save view whose "with transaction.atomic():" block ended as r
SaveResponse(d, r) == [db |-> Atomic(d, r), status |-> IF r.ok THEN "200" ELSE "500"]

\* In each view below loop[i] is the state of "for item in payload:" after
\* its i-th element; fault = k > 0 makes the database raise an error while the
\* k-th element is processed (fault = 0: the database works).
save_rangsiz(d, sess, payload, fault) ==
  IF _session_user_or_json_401(sess) # NONE THEN [db |-> d, status |-> "401"]
  ELSE IF Undecodable(payload) THEN [db |-> d, status |-> "500"]
  ELSE IF ~payload.list \/ payload.items = <<>> THEN [db |-> d, status |-> "400"]
  ELSE LET user_id == _get_user_id(sess)
           branch == _get_branch(sess)
           loop[i \in 0..Len(payload.items)] ==
             IF i = 0 THEN Skip(d)
             ELSE IF ~loop[i - 1].ok THEN loop[i - 1]
             ELSE IF fault = i THEN Raise(loop[i - 1].db)
             ELSE save_rangsiz_item(loop[i - 1].db, user_id, branch, payload.items[i])
       IN SaveResponse(d, loop[Len(payload.items)])

save_rangli(d, sess, payload, fault) ==
  IF _session_user_or_json_401(sess) # NONE THEN [db |-> d, status |-> "401"]
  ELSE IF Undecodable(payload) THEN [db |-> d, status |-> "500"]
  ELSE IF ~payload.list \/ payload.items = <<>> THEN [db |-> d, status |-> "400"]
  ELSE LET user_id == _get_user_id(sess)
           branch == _get_branch(sess)
           loop[i \in 0..Len(payload.items)] ==
             IF i = 0 THEN Skip(d)
             ELSE IF ~loop[i - 1].ok THEN loop[i - 1]
             ELSE IF fault = i THEN Raise(loop[i - 1].db)
             ELSE save_rangli_item(loop[i - 1].db, user_id, branch, payload.items[i])
       IN SaveResponse(d, loop[Len(payload.items)])

save_kapliya(d, sess, payload, fault) ==
  IF _session_user_or_json_401(sess) # NONE THEN [db |-> d, status |-> "401"]
  ELSE IF Undecodable(payload) THEN [db |-> d, status |-> "500"]
  ELSE IF ~payload.list \/ payload.items = <<>> THEN [db |-> d, status |-> "400"]
  ELSE LET user_id == _get_user_id(sess)
           branch == _get_branch(sess)
           loop[i \in 0..Len(payload.items)] ==
             IF i = 0 THEN Skip(d)
             ELSE IF ~loop[i - 1].ok THEN loop[i - 1]
             ELSE IF fault = i THEN Raise(loop[i - 1].db)
             ELSE save_kapliya_item(loop[i - 1].db, user_id, branch, payload.items[i])
       IN SaveResponse(d, loop[Len(payload.items)])

save_aksessuar(d, sess, payload, fault) ==
  IF _session_user_or_json_401(sess) # NONE THEN [db |-> d, status |-> "401"]
  ELSE IF Undecodable(payload) THEN [db |-> d, status |-> "500"]
  ELSE IF ~payload.list \/ payload.items = <<>> THEN [db |-> d, status |-> "400"]
  ELSE LET user_id == _get_user_id(sess)
           branch == _get_branch(sess)
           loop[i \in 0..Len(payload.items)] ==
             IF i = 0 THEN Skip(d)
             ELSE IF ~loop[i - 1].ok THEN loop[i - 1]
             ELSE IF fault = i THEN Raise(loop[i - 1].db)
             ELSE save_aksessuar_item(loop[i - 1].db, user_id, branch, payload.items[i])
       IN SaveResponse(d, loop[Len(payload.items)])

save_antik(d, sess, payload, fault) ==
  IF _session_user_or_json_401(sess) # NONE THEN [db |-> d, status |-> "401"]
  ELSE IF Undecodable(payload) THEN [db |-> d, status |-> "500"]
  ELSE IF ~payload.list \/ payload.items = <<>> THEN [db |-> d, status |-> "400"]
  ELSE LET user_id == _get_user_id(sess)
           branch == _get_branch(sess)
           loop[i \in 0..Len(payload.items)] ==
             IF i = 0 THEN Skip(d)
             ELSE IF ~loop[i - 1].ok THEN loop[i - 1]
             ELSE IF fault = i THEN Raise(loop[i - 1].db)
             ELSE save_antik_item(loop[i - 1].db, user_id, branch, payload.items[i])
       IN SaveResponse(d, loop[Len(payload.items)])

save_gatoviy(d, sess, payload, fault) ==
  IF _session_user_or_json_401(sess) # NONE THEN [db |-> d, status |-> "401"]
  ELSE IF Undecodable(payload) THEN [db |-> d, status |-> "500"]
  ELSE IF ~payload.list \/ payload.items = <<>> THEN [db |-> d, status |-> "400"]
  ELSE LET user_id == _get_user_id(sess)
           branch == _get_branch(sess)
           loop[i \in 0..Len(payload.items)] ==
             IF i = 0 THEN Skip(d)
             ELSE IF ~loop[i - 1].ok THEN loop[i - 1]
             ELSE IF fault = i THEN Raise(loop[i - 1].db)
             ELSE save_gatoviy_item(loop[i - 1].db, user_id, branch, payload.items[i])
       IN SaveResponse(d, loop[Len(payload.items)])

save_oprava(d, sess, payload, fault) ==
  IF _session_user_or_json_401(sess) # NONE THEN [db |-> d, status |-> "401"]
  ELSE IF Undecodable(payload) THEN [db |-> d, status |-> "500"]
  ELSE IF ~payload.list \/ payload.items = <<>> THEN [db |-> d, status |-> "400"]
  ELSE LET user_id == _get_user_id(sess)
           branch == _get_branch(sess)
           loop[i \in 0..Len(payload.items)] ==
             IF i = 0 THEN Skip(d)
             ELSE IF ~loop[i - 1].ok THEN loop[i - 1]
             ELSE IF fault = i THEN Raise(loop[i - 1].db)
             ELSE save_oprava_item(loop[i - 1].db, user_id, branch, payload.items[i])
       IN SaveResponse(d, loop[Len(payload.items)])

\* ------------------------------------------------ profile: edit / delete / send
Max(a, b) == IF a >= b THEN a ELSE b

\* Order.objects.filter(id=row_id, user_id=user_id, is_sent=False)
OwnPending(d, row_id, user_id) ==
  {o \in d.orders : o.id = row_id /\ o.user_id = user_id /\ ~o.is_sent}

\* model_cls.objects.filter(id=product_id).update(miqdor=..., izoh=...)
UpdateProduct(d, model_cls, product_id, miqdor, izoh) ==
  [d EXCEPT !.products[model_cls] =
     {IF p.id = product_id THEN [p EXCEPT !.miqdor = miqdor, !.izoh = izoh] ELSE p : p \in @}]

\* model_cls.objects.filter(id=product_id).delete()
DeleteProduct(d, model_cls, product_id) ==
  [d EXCEPT !.products[model_cls] = {p \in @ : p.id # product_id}]

\* data is [dict, Id, Miqdor, Izoh, Category].  The two writes run in
\* autocommit mode (no transaction.atomic): fault = 1 raises in order.save(),
\* fault = 2 raises in the product update, after order.save() has committed.
save_profile_row(d, sess, data, fault) ==
  IF _session_user_or_json_401(sess) # NONE THEN [db |-> d, status |-> "401"]
  ELSE IF Undecodable(data) THEN [db |-> d, status |-> "500"]
  ELSE IF ~data.dict THEN [db |-> d, status |-> "400"]
  ELSE
  LET row_id == _to_int(data.Id, 0)
      miqdor == _to_int(data.Miqdor, 0)
      izoh == Or(data.Izoh, "-")
      category == _clean_str(data.Category)
      found == OwnPending(d, row_id, _get_user_id(sess))
  IN IF row_id <= 0 THEN [db |-> d, status |-> "400"]
     ELSE IF found = {} THEN [db |-> d, status |-> "404"]
     ELSE IF fault = 1 THEN [db |-> d, status |-> "500"]
     ELSE
     LET order == First(found)
         o2 == [order EXCEPT !.miqdor = Max(0, miqdor), !.izoh = izoh]
         d1 == [d EXCEPT !.orders = (@ \ {order}) \cup {o2}]
         cat == Or(category, Or(order.category, ""))
         model_cls == CategoryModelGet(cat)
     IN IF model_cls = NONE THEN [db |-> d1, status |-> "200"]
        ELSE IF fault = 2 THEN [db |-> d1, status |-> "500"]
        ELSE [db |-> UpdateProduct(d1, model_cls, order.product_id, o2.miqdor, o2.izoh),
              status |-> "200"]

\* an element of the delete_rows body is [kind, Id, Category]
delete_rows_item(d, user_id, item) ==
  IF item.kind # "dict" THEN Raise(d) ELSE
  LET row_id == _to_int(item.Id, 0)
      found == OwnPending(d, row_id, user_id)
  IN IF row_id <= 0 \/ found = {} THEN Skip(d)
     ELSE LET order == First(found)
              cat == Or(order.category, _clean_str(item.Category))
              model_cls == CategoryModelGet(cat)
              d1 == IF model_cls # NONE THEN DeleteProduct(d, model_cls, order.product_id) ELSE d
          IN [db |-> [d1 EXCEPT !.orders = @ \ {order}], ok |-> TRUE]

\* loop[i] is the state of "for item in payload:" after its i-th element
delete_rows(d, sess, payload, fault) ==
  IF _session_user_or_json_401(sess) # NONE THEN [db |-> d, status |-> "401"]
  ELSE IF Undecodable(payload) THEN [db |-> d, status |-> "500"]
  ELSE IF ~payload.list \/ payload.items = <<>> THEN [db |-> d, status |-> "400"]
  ELSE LET user_id == _get_user_id(sess)
           loop[i \in 0..Len(payload.items)] ==
             IF i = 0 THEN Skip(d)
             ELSE IF ~loop[i - 1].ok THEN loop[i - 1]
             ELSE IF fault = i THEN Raise(loop[i - 1].db)
             ELSE delete_rows_item(loop[i - 1].db, user_id, payload.items[i])
           r == loop[Len(payload.items)]
       IN [db |-> Atomic(d, r), status |-> IF r.ok THEN "200" ELSE "500"]

\* order_ids = [i for i in [_to_int(x, 0) for x in payload] if i > 0]
OrderIds(items) == {i \in {_to_int(items[k], 0) : k \in 1..Len(items)} : i > 0}

\* Order.objects.filter(id__in=order_ids, user_id=user_id, is_sent=False)
SelectedOrders(d, order_ids, user_id) ==
  {o \in d.orders : o.id \in order_ids /\ o.user_id = user_id /\ ~o.is_sent}

\* Archive.objects.create(...)
CreatedArchive(d, branch, full_name) ==
  [id |-> NextId(d, "Archive"), filial |-> branch, user_full_name |-> full_name,
   is_pdf_downloaded |-> TRUE, is_telegram_shared |-> FALSE]

\* a bulk_create that attaches the new items to the oldest Archive row
ItemsIntoOldest(d, archive_id, sel) ==
  {[id |-> d.seq["ArchiveItem"] + Cardinality({q \in sel : q.id <= o.id}),
    archive |-> First(d.archives).id, category |-> o.category, model |-> o.model,
    dioptriya |-> o.dioptriya, miqdor |-> o.miqdor, izoh |-> o.izoh] : o \in sel}

\* ArchiveItem.objects.bulk_create(items): one item per order, ids in list order
CreatedItems(d, archive_id, sel) ==
  {[id |-> d.seq["ArchiveItem"] + Cardinality({q \in sel : q.id <= o.id}),
    archive |-> archive_id, category |-> o.category, model |-> o.model,
    dioptriya |-> o.dioptriya, miqdor |-> o.miqdor, izoh |-> o.izoh] : o \in sel}

\* a clearing loop that deletes the Order rows and leaves the product rows
ClearOrdersOnly(d, sel) == [d EXCEPT !.orders = @ \ sel]

\* a clearing loop that flags the Order rows instead of deleting them
FlagOrders(d, sel) ==
  [d EXCEPT !.orders = {IF o \in sel THEN [o EXCEPT !.is_sent = TRUE] ELSE o : o \in @}]

\* "for o in orders:" delete the product row, then the order
ClearOrders(d, sel) ==
  [d EXCEPT !.products = [t \in ProductTables |->
                            {p \in @[t] : ~\E o \in sel :
                               CategoryModelGet(Or(o.category, "")) = t /\ o.product_id = p.id}],
            !.orders = {o \in @ : o.id \notin Ids(sel)}]

\* the transaction body of mark_as_sent; fault = 1 raises in Archive create,
\* fault = 2 in bulk_create, fault = 3 in the delete loop
MarkAsSentBody(d, sel, branch, full_name, fault) ==
  LET archive == CreatedArchive(d, branch, full_name)
      d1 == [d EXCEPT !.archives = @ \cup {archive}, !.seq["Archive"] = @ + 1]
      d2 == [d1 EXCEPT !.items = @ \cup CreatedItems(d1, archive.id, sel),
                       !.seq["ArchiveItem"] = @ + Cardinality(sel)]
  IN CASE fault = 1 -> Raise(d)
       [] fault = 2 -> Raise(d1)
       [] fault = 3 -> Raise(d2)
       [] OTHER -> [db |-> ClearOrders(d2, sel), ok |-> TRUE]

\* payload is [list, items], items the JSON values sent as order ids
mark_as_sent(d, sess, payload, fault) ==
  IF _session_user_or_json_401(sess) # NONE THEN [db |-> d, status |-> "401"]
  ELSE IF Undecodable(payload) THEN [db |-> d, status |-> "500"]
  ELSE IF ~payload.list \/ payload.items = <<>> THEN [db |-> d, status |-> "400"]
  ELSE
  LET order_ids == OrderIds(payload.items)
      orders == SelectedOrders(d, order_ids, _get_user_id(sess))
  IN IF order_ids = {} THEN [db |-> d, status |-> "400"]
     ELSE IF orders = {} THEN [db |-> d, status |-> "404"]
     ELSE LET r == MarkAsSentBody(d, orders, _get_branch(sess), _get_full_name(sess), fault)
          IN IF r.ok
               THEN [db |-> r.db, status |-> "200",
                     archived |-> [archive |-> NextId(d, "Archive"), orders |-> Ids(orders),
                                   by |-> _get_user_id(sess)]]
               ELSE [db |-> Atomic(d, r), status |-> "500"]

\* ------------------------------------------------------- login and users
\* a password stored as it was typed
StoredAsTyped(raw) == raw

\* make_password(raw): the stored encoding of a password (salt left out)
make_password(raw) == "h(" \o raw \o ")"

\* check_password(password, encoded): the encoding of the password is the
\* stored one; a stored value that is no encoding verifies nothing
check_password(password, encoded) == encoded = make_password(password)

\* a lookup that never finds a row
NoUsers(d, user_id) == {}

\* Users.objects.filter(user_id=user_id)
UsersWithUserId(d, user_id) == {u \in d.users : u.user_id = user_id}

\* A login request is [method, userId, password, branch], a field that was not
\* posted being None.  The answer is [db, session, status]; status "success"
\* and "failure" are the JSON bodies success=true and success=false.
login_view(d, sess, post) ==
  IF post.method = "GET" THEN [db |-> d, session |-> sess, status |-> "page"] ELSE
  LET user_id == _clean_str(post.userId)
      password == _clean_str(post.password)
      branch == _clean_str(post.branch)
      found == UsersWithUserId(d, user_id)
  IN IF ~Truthy(user_id) \/ ~Truthy(password) \/ found = {}
       THEN [db |-> d, session |-> sess, status |-> "failure"]
     ELSE
       LET user == First(found)
           verified == Truthy(user.parol) /\ check_password(password, user.parol)
           upgrade == ~verified /\ user.parol = password
           d1 == IF upgrade
                   THEN [d EXCEPT !.users =
                           (@ \ {user}) \cup {[user EXCEPT !.parol = make_password(password)]}]
                   ELSE d
       IN IF ~(verified \/ upgrade)
            THEN [db |-> d, session |-> sess, status |-> "failure"]
            ELSE [db |-> d1,
                  session |-> [sess EXCEPT !.UserId = user.user_id, !.FullName = user.full_name,
                                           !.Role = user.role,
                                           !.Branch = IF Truthy(branch) THEN branch ELSE @],
                  status |-> "success"]

\* a logout that leaves the session as it is
KeepSession(d, sess) == [db |-> d, session |-> sess, status |-> redirect("optika:login")]

\* request.session.flush()
logout_view(d, sess) == [db |-> d, session |-> EmptySession, status |-> redirect("optika:login")]

\* A user form is [method, Id, FullName, UserId, Parol, Role] (the phone number,
\* which no view reads back, is left out).
add_user_page_and_create(d, sess, post) ==
  IF _session_user_or_redirect(sess) # NONE THEN [db |-> d, status |-> _session_user_or_redirect(sess)]
  ELSE IF _admin_or_redirect(sess) # NONE THEN [db |-> d, status |-> _admin_or_redirect(sess)]
  ELSE IF post.method # "POST" THEN [db |-> d, status |-> "page"]
  ELSE
  LET full_name == _clean_str(post.FullName)
      user_id == _clean_str(post.UserId)
      parol == _clean_str(post.Parol)
      role == Or(_clean_str(post.Role), "User")
  IN IF ~Truthy(full_name) \/ ~Truthy(user_id) \/ ~Truthy(parol)
          \/ UsersWithUserId(d, user_id) # {}
       THEN [db |-> d, status |-> redirect("/Home/AddUser")]
       ELSE [db |-> [d EXCEPT !.users = @ \cup {[id |-> NextId(d, "Users"), user_id |-> user_id,
                                                  full_name |-> full_name,
                                                  parol |-> make_password(parol), role |-> role]},
                              !.seq["Users"] = @ + 1],
             status |-> redirect("/Home/AddUser")]

edit_user(d, sess, post) ==
  IF _session_user_or_redirect(sess) # NONE THEN [db |-> d, status |-> _session_user_or_redirect(sess)]
  ELSE IF sess.Role # "Admin" THEN [db |-> d, status |-> redirect("index")]
  ELSE
  LET uid == _to_int(post.Id, 0)
      found == {u \in d.users : u.id = uid}
      full_name == _clean_str(post.FullName)
      user_id_val == _clean_str(post.UserId)
      new_pass == _clean_str(post.Parol)
      role == Or(_clean_str(post.Role), "User")
  IN IF found = {} THEN [db |-> d, status |-> redirect("/Home/AddUser")]
     ELSE
       LET user == First(found)
           rename == Truthy(user_id_val) /\ user_id_val # user.user_id
       IN IF rename /\ (UsersWithUserId(d, user_id_val) \ {user}) # {}
            THEN [db |-> d, status |-> redirect("/Home/AddUser")]
            ELSE [db |-> [d EXCEPT !.users = (@ \ {user}) \cup
                            {[user EXCEPT !.user_id = IF rename THEN user_id_val ELSE @,
                                          !.full_name = Or(full_name, @),
                                          !.role = role,
                                          !.parol = IF Truthy(new_pass) THEN make_password(new_pass) ELSE @]}],
                  status |-> redirect("/Home/AddUser")]

\* the query string of delete_user is [id]
delete_user(d, sess, get) ==
  IF _session_user_or_redirect(sess) # NONE THEN [db |-> d, status |-> _session_user_or_redirect(sess)]
  ELSE IF sess.Role # "Admin" THEN [db |-> d, status |-> redirect("index")]
  ELSE LET uid == _to_int(get.id, 0)
       IN [db |-> IF uid > 0 THEN [d EXCEPT !.users = {u \in @ : u.id # uid}] ELSE d,
           status |-> redirect("/Home/AddUser")]

\* ------------------------------------------------------------------ pages
\* a page behind the login: rendered ("page") for a logged-in session
PageBehindLogin(d, sess) ==
  IF _session_user_or_redirect(sess) # NONE THEN [db |-> d, status |-> _session_user_or_redirect(sess)]
  ELSE [db |-> d, status |-> "page"]

\* a page behind the login and the Admin role
PageBehindAdmin(d, sess) ==
  IF _session_user_or_redirect(sess) # NONE THEN [db |-> d, status |-> _session_user_or_redirect(sess)]
  ELSE IF _admin_or_redirect(sess) # NONE THEN [db |-> d, status |-> _admin_or_redirect(sess)]
  ELSE [db |-> d, status |-> "page"]

index_view(d, sess) == PageBehindLogin(d, sess)

rangsiz_page(d, sess) == PageBehindLogin(d, sess)

rangli_page(d, sess) == PageBehindLogin(d, sess)

kaplya_page(d, sess) == PageBehindLogin(d, sess)

aksessuar_page(d, sess) == PageBehindLogin(d, sess)

antikomp_page(d, sess) == PageBehindLogin(d, sess)

gatoviy_page(d, sess) == PageBehindLogin(d, sess)

oprava_page(d, sess) == PageBehindLogin(d, sess)

profile_view(d, sess) == PageBehindLogin(d, sess)

archive_view(d, sess) == PageBehindLogin(d, sess)

feedback_page(d, sess) == PageBehindLogin(d, sess)

admin_page(d, sess) == PageBehindAdmin(d, sess)

admin_feedback_page(d, sess) == PageBehindAdmin(d, sess)

telegram_chat_id_page(d, sess) == PageBehindAdmin(d, sess)

\* the body of download_orders_pdf is a list like that of delete_rows
download_orders_pdf(d, sess, payload) ==
  IF _session_user_or_json_401(sess) # NONE THEN [db |-> d, status |-> "401"]
  ELSE IF Undecodable(payload) THEN [db |-> d, status |-> "500"]
  ELSE IF ~payload.list \/ payload.items = <<>> THEN [db |-> d, status |-> "400"]
  ELSE IF \E k \in DOMAIN payload.items : payload.items[k].kind # "dict"
    THEN [db |-> d, status |-> "500"]
  ELSE LET ids == {i \in {_to_int(payload.items[k].Id, 0) : k \in DOMAIN payload.items} : i > 0}
           orders == SelectedOrders(d, ids, _get_user_id(sess))
       IN [db |-> d, status |-> "pdf", pdf_orders |-> Ids(orders)]

\* ---------------------------------------------------------------- archives
\* Archive.objects.filter(id=archive_id)
ArchivesWithId(d, archive_id) == {a \in d.archives : a.id = archive_id}

\* a delete that removes the Archive rows and leaves their items
DeleteArchivesOnly(d, gone) == [d EXCEPT !.archives = @ \ gone]

\* QuerySet.delete() on Archive rows: their items go with them (CASCADE)
DeleteArchives(d, gone) ==
  [d EXCEPT !.archives = @ \ gone,
            !.items = {i \in @ : ~\E a \in gone : i.archive = a.id}]

\* the body of download_archive_pdf is [dict, id]
download_archive_pdf(d, sess, data) ==
  IF _session_user_or_json_401(sess) # NONE THEN [db |-> d, status |-> "401"]
  ELSE IF Undecodable(data) THEN [db |-> d, status |-> "500"]
  ELSE IF ~data.dict THEN [db |-> d, status |-> "400"]
  ELSE
  LET archive_id == _to_int(data.id, 0)
      found == ArchivesWithId(d, archive_id)
  IN IF archive_id <= 0 THEN [db |-> d, status |-> "400"]
     ELSE IF found = {} THEN [db |-> d, status |-> "404"]
     ELSE LET archive == First(found)
          IN IF sess.Role # "Admin"
                  /\ (archive.filial # _get_branch(sess) \/ archive.user_full_name # _get_full_name(sess))
               THEN [db |-> d, status |-> "403"]
               ELSE [db |-> [d EXCEPT !.archives =
                               {IF a.id = archive.id THEN [a EXCEPT !.is_pdf_downloaded = TRUE] ELSE a : a \in @}],
                     status |-> "pdf", pdf_archives |-> {archive.id}]

get_archives(d, sess) ==
  IF _session_user_or_json_401(sess) # NONE THEN [db |-> d, status |-> "401"]
  ELSE IF _admin_or_403(sess) # NONE THEN [db |-> d, status |-> "403"]
  ELSE [db |-> d, status |-> "200"]

\* the query string of get_archive_items is [archiveId]
get_archive_items(d, sess, get) ==
  IF _session_user_or_json_401(sess) # NONE THEN [db |-> d, status |-> "401"]
  ELSE IF _admin_or_403(sess) # NONE THEN [db |-> d, status |-> "403"]
  ELSE [db |-> d, status |-> "200"]

\* the body of delete_archive is [dict, ArchiveId]
delete_archive(d, sess, data) ==
  IF _session_user_or_json_401(sess) # NONE THEN [db |-> d, status |-> "401"]
  ELSE IF _admin_or_403(sess) # NONE THEN [db |-> d, status |-> "403"]
  ELSE IF Undecodable(data) THEN [db |-> d, status |-> "500"]
  ELSE IF ~data.dict THEN [db |-> d, status |-> "400"]
  ELSE LET archive_id == _to_int(data.ArchiveId, 0)
       IN IF archive_id <= 0 THEN [db |-> d, status |-> "400"]
          ELSE [db |-> DeleteArchives(d, ArchivesWithId(d, archive_id)), status |-> "200"]

clear_all_archives(d, sess) ==
  IF _session_user_or_json_401(sess) # NONE THEN [db |-> d, status |-> "401"]
  ELSE IF _admin_or_403(sess) # NONE THEN [db |-> d, status |-> "403"]
  ELSE [db |-> DeleteArchives(d, d.archives), status |-> "200"]

download_all_archives_pdf(d, sess) ==
  IF _session_user_or_json_401(sess) # NONE THEN [db |-> d, status |-> "401"]
  ELSE IF _admin_or_403(sess) # NONE THEN [db |-> d, status |-> "403"]
  ELSE [db |-> [d EXCEPT !.archives = {[a EXCEPT !.is_pdf_downloaded = TRUE] : a \in @}],
        status |-> "pdf", pdf_archives |-> Ids(d.archives)]

\* env is [token, requests, outcome]: whether settings.TELEGRAM_BOT_TOKEN is
\* set, whether "import requests" works, and for each chat id how the
\* sendDocument call ends: "ok" (HTTP success and "ok": true in the answer),
\* "http_error" (r.ok false), "not_ok" (the answer says "ok": false) or
\* "raise" (timeout, connection error, answer that is not JSON)
ChatIds == {"c1", "c2"}

SendResults == {"ok", "http_error", "not_ok", "raise"}

\* the i-th row of a table in id order
NthRow(rows, i) == CHOOSE r \in rows : Cardinality({q \in rows : q.id <= r.id}) = i

\* an attempt that is counted whether or not Telegram acknowledged it
CountEveryAttempt(ok_count, result) == ok_count + 1

\* the body of "for ch in chats:": ok_count after one sendDocument call
TrySend(ok_count, result) == IF result = "ok" THEN ok_count + 1 ELSE ok_count

\* lines 1249-1301: the checks, the chats and the archives read, the PDF built.
\* Status "sending" stands for the request that goes on to send: pdf holds the
\* ids of the archives in the PDF, chats the rows read from TelegramChat.
share_prepare(d, sess, env) ==
  IF _session_user_or_json_401(sess) # NONE THEN [db |-> d, status |-> "401"]
  ELSE IF _admin_or_403(sess) # NONE THEN [db |-> d, status |-> "403"]
  ELSE IF ~env.token THEN [db |-> d, status |-> "500"]
  ELSE IF d.chats = {} THEN [db |-> d, status |-> "400"]
  ELSE IF ~env.requests THEN [db |-> d, status |-> "500"]
  ELSE [status |-> "sending", pdf |-> Ids(d.archives), chats |-> d.chats]

\* lines 1303-1326: the sends, the count, the update of every Archive row of
\* the database as it is then, and the answer
share_send(d, job, env) ==
  LET n == Cardinality(job.chats)
      loop[i \in 0..n] ==
        IF i = 0 THEN [ok_count |-> 0, attempted |-> {}]
        ELSE LET ch == NthRow(job.chats, i)
             IN [ok_count |-> TrySend(loop[i - 1].ok_count, env.outcome[ch.chat_id]),
                 attempted |-> loop[i - 1].attempted \cup {ch.chat_id}]
      ok_count == loop[n].ok_count
  IN IF ok_count = 0
       THEN [db |-> d, status |-> "500", ok_count |-> 0, total |-> n,
             attempted |-> loop[n].attempted]
       ELSE [db |-> [d EXCEPT !.archives = {[a EXCEPT !.is_telegram_shared = TRUE] : a \in @}],
             status |-> "200", ok_count |-> ok_count, total |-> n,
             attempted |-> loop[n].attempted, sent_archives |-> job.pdf]

\* the request served without any other request in between
share_all_archives_telegram(d, sess, env) ==
  LET job == share_prepare(d, sess, env)
  IN IF job.status # "sending" THEN job ELSE share_send(d, job, env)

\* ---------------------------------------------------------------- feedback
\* the body of send_feedback is [dict, message, phone]
send_feedback(d, sess, data) ==
  IF _session_user_or_json_401(sess) # NONE THEN [db |-> d, status |-> "401"]
  ELSE IF Undecodable(data) THEN [db |-> d, status |-> "500"]
  ELSE IF ~data.dict THEN [db |-> d, status |-> "400"]
  ELSE LET message_text == _clean_str(data.message)
           phone == _clean_str(data.phone)
       IN IF ~Truthy(message_text) THEN [db |-> d, status |-> "400"]
          ELSE [db |-> [d EXCEPT !.feedback = @ \cup {[id |-> NextId(d, "FeedBack"),
                                                        full_name |-> _get_full_name(sess),
                                                        phone |-> Or(phone, NONE),
                                                        message |-> message_text]},
                                 !.seq["FeedBack"] = @ + 1],
                status |-> "200"]

clear_all_feedback(d, sess) ==
  IF _session_user_or_json_401(sess) # NONE THEN [db |-> d, status |-> "401"]
  ELSE IF _admin_or_403(sess) # NONE THEN [db |-> d, status |-> "403"]
  ELSE [db |-> [d EXCEPT !.feedback = {}], status |-> redirect("/Home/AdminFeedBack")]

export_feedback_pdf(d, sess) ==
  IF _session_user_or_redirect(sess) # NONE THEN [db |-> d, status |-> _session_user_or_redirect(sess)]
  ELSE IF sess.Role # "Admin" THEN [db |-> d, status |-> redirect("index")]
  ELSE [db |-> d, status |-> "pdf"]

\* ------------------------------------------------------------ telegram chats
\* the form of add_chat is [FullName, ChatId]
add_chat(d, sess, post) ==
  IF _session_user_or_redirect(sess) # NONE THEN [db |-> d, status |-> _session_user_or_redirect(sess)]
  ELSE IF sess.Role # "Admin" THEN [db |-> d, status |-> redirect("index")]
  ELSE LET full_name == _clean_str(post.FullName)
           chat_id == _clean_str(post.ChatId)
       IN IF ~Truthy(full_name) \/ ~Truthy(chat_id) \/ (\E c \in d.chats : c.chat_id = chat_id)
            THEN [db |-> d, status |-> redirect("/Home/TelegramChatId")]
            ELSE [db |-> [d EXCEPT !.chats = @ \cup {[id |-> NextId(d, "TelegramChat"),
                                                      full_name |-> full_name, chat_id |-> chat_id]},
                                   !.seq["TelegramChat"] = @ + 1],
                  status |-> redirect("/Home/TelegramChatId")]

\* the form of delete_chat is [id]
delete_chat(d, sess, post) ==
  IF _session_user_or_redirect(sess) # NONE THEN [db |-> d, status |-> _session_user_or_redirect(sess)]
  ELSE IF sess.Role # "Admin" THEN [db |-> d, status |-> redirect("index")]
  ELSE LET cid == _to_int(post.id, 0)
       IN [db |-> IF cid > 0 THEN [d EXCEPT !.chats = {c \in @ : c.id # cid}] ELSE d,
           status |-> redirect("/Home/TelegramChatId")]

\* ------------------------------------------------------------ initial state
Sess == {"s1", "s2"}

User(id, user_id, full_name, parol, role) ==
  [id |-> id, user_id |-> user_id, full_name |-> full_name, parol |-> parol, role |-> role]

EmptyDb ==
  [users |-> {}, products |-> [t \in ProductTables |-> {}], orders |-> {}, archives |-> {},
   items |-> {}, feedback |-> {}, chats |-> {}, seq |-> [t \in AllTables |-> 0]]

\* a staff account carried over with its plain-text password (models.py:15),
\* and a staff account and an administrator as add_user leaves them
StaffDb ==
  [EmptyDb EXCEPT !.users = {User(1, "u1", "N1", "p1", "User"),
                             User(2, "u2", "N2", make_password("p2"), "User"),
                             User(3, "adm", "Boss", make_password("p3"), "Admin")},
                  !.seq["Users"] = 3]

\* the session login_view leaves for a user row and a submitted branch
LoggedIn(u, branch) == [UserId |-> u.user_id, FullName |-> u.full_name, Role |-> u.role, Branch |-> branch]

UserRow(d, user_id) == CHOOSE u \in d.users : u.user_id = user_id

\* -------------------------------------------------------------- requests
Item(nomi, miqdor, turi, dioptriya, izoh, category) ==
  [kind |-> "dict", nomi |-> nomi, miqdor |-> miqdor, turi |-> turi, dioptriya |-> dioptriya,
   izoh |-> izoh, category |-> category]

\* a JSON scalar where an object is expected
ScalarItem == [kind |-> "int"]

List(items) == [list |-> TRUE, items |-> items]

NotAList == [list |-> FALSE, items |-> <<>>]

\* a body of bytes that are not UTF-8 (such as the single byte 0xFF)
NotUtf8 == [list |-> FALSE, dict |-> FALSE, items |-> <<>>, utf8 |-> FALSE]

Lists1(S) == {List(<<x>>) : x \in S}

Lists2(S) == {List(<<x, y>>) : x \in S, y \in S}

RangsizItems ==
  {Item("a", "1", NONE, NONE, NONE, NONE),
   Item("a", "1", NONE, NONE, NONE, "Kaplya"),
   Item("", "1", NONE, NONE, NONE, NONE)}

OpravaItems ==
  {Item("a", "1", "t", NONE, NONE, NONE),
   Item("a", "1", "T", NONE, NONE, NONE),
   Item("a", "1", NONE, NONE, NONE, NONE),
   Item("b", "0", "t", NONE, NONE, NONE)}

OpravaPairs ==
  {List(<<Item("a", "1", "t", NONE, NONE, NONE), Item("a", "1", NONE, NONE, NONE, NONE)>>),
   List(<<Item("a", "1", NONE, NONE, NONE, NONE), Item("a", "1", "t", NONE, NONE, NONE)>>),
   List(<<Item("a", "1", "t", NONE, NONE, NONE), ScalarItem>>)}

ThinItems == {Item("a", "1", "t", "d", NONE, NONE)}

RowEdits ==
  {[dict |-> TRUE, Id |-> id, Miqdor |-> "2", Izoh |-> NONE, Category |-> c] :
     id \in {"1", "2"}, c \in {NONE, "Kaplya"}}

RowDeletes == {List(<<[kind |-> "dict", Id |-> id, Category |-> NONE]>>) : id \in {"1", "2"}}

SendLists == {List(<<"1">>), List(<<"2">>), List(<<"1", "2">>)}

\* ------------------------------------------------------------------ actions
RowsMade(d) ==
  d.seq["Rangsiz"] + d.seq["Rangli"] + d.seq["Kapliya"] + d.seq["Aksessuar"]
    + d.seq["Antikompyuter"] + d.seq["Oprava"] + d.seq["Gatoviy"]

\* the passwords the model's clients know, and what the database can hold of
\* them: each encoded at most MaxRehash times
RawPasswords == {"p1", "p2", "p3", "x"}

Credentials ==
  LET nest[k \in 0..MaxRehash] ==
        IF k = 0 THEN RawPasswords ELSE nest[k - 1] \cup {make_password(c) : c \in nest[k - 1]}
  IN nest[MaxRehash]

\* the explored part of the state space
Bounded(d) ==
  /\ d.seq["Users"] <= 3 + MaxAdminRows
  /\ d.seq["FeedBack"] <= 1 + MaxAdminRows
  /\ d.seq["TelegramChat"] <= 1 + MaxAdminRows
  /\ \A u \in d.users : u.parol \in Credentials
  /\ RowsMade(d) <= MaxRows
  /\ d.seq["Order"] <= MaxRows + 1
  /\ \A t \in ProductTables : \A p \in d.products[t] : p.miqdor <= MaxQty
  /\ \A o \in d.orders : o.miqdor <= MaxQty

\* the log after an answer r: the PDFs it handed out, the archives it sent,
\* for a new archive whether the PDF of its orders had been downloaded, and
\* which user's request created it
Logged(l, r) ==
  LET f == DOMAIN r
      orders == IF "pdf_orders" \in f THEN r.pdf_orders ELSE {}
      archives == IF "pdf_archives" \in f THEN r.pdf_archives
                  ELSE IF "archived" \in f /\ r.archived.orders \subseteq l.pdf_orders
                    THEN {r.archived.archive}
                  ELSE {}
      sent == IF "sent_archives" \in f THEN r.sent_archives ELSE {}
  IN [pdf_orders |-> l.pdf_orders \cup orders,
      pdf_archives |-> l.pdf_archives \cup archives,
      sent_archives |-> l.sent_archives \cup sent,
      share_count |-> IF "ok_count" \in f THEN <<r.ok_count, r.total>> ELSE l.share_count,
      created_by |-> l.created_by \cup
                       (IF "archived" \in f THEN {<<r.archived.archive, r.archived.by>>} ELSE {})]

\* no share request under way
Idle == [status |-> "idle"]

NoLog ==
  [pdf_orders |-> {}, pdf_archives |-> {}, sent_archives |-> {}, share_count |-> <<0, 0>>,
   created_by |-> {}]

\* a request of a session answered with r: the database and the status change
Answer(r) ==
  /\ Bounded(r.db)
  /\ db' = r.db
  /\ resp' = r.status
  /\ log' = Logged(log, r)
  /\ UNCHANGED <<session, sharing>>

\* a request of session s answered with r, which also changes the session
AnswerSession(s, r) ==
  /\ Bounded(r.db)
  /\ db' = r.db
  /\ session' = [session EXCEPT ![s] = r.session]
  /\ resp' = r.status
  /\ UNCHANGED <<sharing, log>>

\* Each action is one view called by a session in S with a body in P while the
\* database fails as F says (0: it does not fail).
SaveRangsiz(S, P, F) ==
  \E s \in S, payload \in P, fault \in F : Answer(save_rangsiz(db, session[s], payload, fault))

SaveRangli(S, P, F) ==
  \E s \in S, payload \in P, fault \in F : Answer(save_rangli(db, session[s], payload, fault))

SaveKapliya(S, P, F) ==
  \E s \in S, payload \in P, fault \in F : Answer(save_kapliya(db, session[s], payload, fault))

SaveAksessuar(S, P, F) ==
  \E s \in S, payload \in P, fault \in F : Answer(save_aksessuar(db, session[s], payload, fault))

SaveAntik(S, P, F) ==
  \E s \in S, payload \in P, fault \in F : Answer(save_antik(db, session[s], payload, fault))

SaveGatoviy(S, P, F) ==
  \E s \in S, payload \in P, fault \in F : Answer(save_gatoviy(db, session[s], payload, fault))

SaveOprava(S, P, F) ==
  \E s \in S, payload \in P, fault \in F : Answer(save_oprava(db, session[s], payload, fault))

SaveProfileRow(S, P, F) ==
  \E s \in S, data \in P, fault \in F : Answer(save_profile_row(db, session[s], data, fault))

DeleteRows(S, P, F) ==
  \E s \in S, payload \in P, fault \in F : Answer(delete_rows(db, session[s], payload, fault))

MarkAsSent(S, P, F) ==
  \E s \in S, payload \in P, fault \in F : Answer(mark_as_sent(db, session[s], payload, fault))

\* two logged-in staff sessions and an empty cart
Init ==
  /\ db = StaffDb
  /\ session = [s \in Sess |-> IF s = "s1" THEN LoggedIn(UserRow(StaffDb, "u1"), "b1")
                                          ELSE LoggedIn(UserRow(StaffDb, "u2"), NONE)]
  /\ resp = NONE
  /\ sharing = [s \in Sess |-> Idle]
  /\ log = NoLog

\* The cart: staff session s1 fills a cart through save_rangsiz (also with a
\* category label of its own choice), both sessions through save_kapliya; both
\* edit, delete and send.
Next ==
  \/ SaveRangsiz({"s1"}, Lists1(RangsizItems), {0})
  \/ SaveKapliya(Sess, Lists1(ThinItems), {0})
  \/ SaveProfileRow({"s1"}, RowEdits, {0, 2})
  \/ DeleteRows({"s1"}, RowDeletes, {0})
  \/ MarkAsSent(Sess, SendLists, {0, 3})

Spec == Init /\ [][Next]_vars

\* ============================================================== the claims
\* the requests the claims quantify over
AllSendLists == SendLists \cup {List(<<"2", "1", "2">>), List(<<"0">>), List(<<"x", "1">>)}

\* the ids a mark_as_sent body names
Requested(payload) == {_to_int(payload.items[k], 0) : k \in DOMAIN payload.items}

\* the pending Order rows of the session user among the requested ones
SelectedBy(d, sess, payload) ==
  {o \in d.orders : ~o.is_sent /\ o.user_id = sess.UserId /\ o.id \in Requested(payload)}

Copied(r) ==
  [category |-> r.category, model |-> r.model, dioptriya |-> r.dioptriya,
   miqdor |-> r.miqdor, izoh |-> r.izoh]

\* the product rows an Order row refers to: by category label and numeric id
ReferencedRows(d, o) ==
  IF o.category \in DOMAIN CATEGORY_MODEL
    THEN {p \in d.products[CATEGORY_MODEL[o.category]] : p.id = o.product_id}
    ELSE {}

\* C2: in every reachable state every pending Order row refers to an existing
\* product row: CATEGORY_MODEL maps its category label to the table that holds
\* a row with id = product_id and the same user_id.
C2_PendingOrdersReferToProducts ==
  \A o \in db.orders :
    ~o.is_sent => \E p \in ReferencedRows(db, o) : p.user_id = o.user_id

\* C3: a successful mark_as_sent creates exactly one Archive and exactly one
\* ArchiveItem per selected pending Order of the session user, each copying the
\* Order's category, model, dioptriya, miqdor and izoh; it deletes those Orders
\* and exactly the product rows they reference by category label and id, and
\* leaves every other Order unchanged.
C3_MarkAsSentArchivesSelection ==
  \A s \in Sess, payload \in AllSendLists :
    LET r == mark_as_sent(db, session[s], payload, 0)
        sel == SelectedBy(db, session[s], payload)
        newArchives == r.db.archives \ db.archives
        newItems == r.db.items \ db.items
    IN r.status = "200" =>
         /\ sel # {}
         /\ db.archives \subseteq r.db.archives /\ Cardinality(newArchives) = 1
         /\ db.items \subseteq r.db.items /\ Cardinality(newItems) = Cardinality(sel)
         /\ \A i \in newItems : \E a \in newArchives : i.archive = a.id
         /\ \A o \in sel :
              Cardinality({i \in newItems : Copied(i) = Copied(o)})
                = Cardinality({q \in sel : Copied(q) = Copied(o)})
         /\ r.db.orders = db.orders \ sel
         /\ \A t \in ProductTables :
              r.db.products[t] =
                {p \in db.products[t] :
                   ~\E o \in sel : o.category \in DOMAIN CATEGORY_MODEL
                        /\ CATEGORY_MODEL[o.category] = t /\ p \in ReferencedRows(db, o)}

\* C3 witness: mark_as_sent has archived two Orders at once for one user while
\* a pending Order of the other user is still in place.
C3_Witness ==
  /\ resp = "200"
  /\ \E a \in db.archives : Cardinality({i \in db.items : i.archive = a.id}) = 2
  /\ \E o \in db.orders : ~o.is_sent

\* C4 (as stated): when mark_as_sent archives a cart, its Order rows are
\* flagged is_sent = true: a step that creates an Archive leaves flagged rows.
C4_ArchivedOrdersFlagged ==
  [][db'.archives # db.archives => \E o \in db'.orders : o.is_sent]_vars

\* C4 (amended): when mark_as_sent archives a cart, its Order rows are deleted;
\* no Order row is ever flagged is_sent = true.
C4_ArchivedOrdersDeleted ==
  /\ \A o \in db.orders : ~o.is_sent
  /\ \A s \in Sess, payload \in AllSendLists :
       LET r == mark_as_sent(db, session[s], payload, 0)
       IN r.status = "200" =>
            \A o \in SelectedBy(db, session[s], payload) : \A q \in r.db.orders : q.id # o.id

\* C4 witness: an Archive with an item exists and the archived Order is gone.
C4_Witness ==
  /\ resp = "200"
  /\ \E a \in db.archives : \E i \in db.items : i.archive = a.id
  /\ db.seq["Order"] > Cardinality(db.orders)

\* C5: a cart mutation that fails after some of its writes leaves none of its
\* row changes visible.
C5_FailedRequestChangesNothing ==
  [][resp' = "500" => db' = db]_vars

\* the (table, category label) pairs the save views pass to the merge helper:
\* save_kapliya its own label, save_rangsiz the label of the request
MergeTargets ==
  {<<"Kapliya", "Kaplya">>, <<"Rangsiz", "Kontakt linza">>, <<"Rangsiz", "Kaplya">>}

\* the pending Order rows the helper keeps for a product row: those of the
\* user with the row's id and the category label of the call
OrdersFor(d, user_id, product_id, category) ==
  {o \in d.orders :
     ~o.is_sent /\ o.user_id = user_id /\ o.product_id = product_id
       /\ Fold(o.category) = Fold(category)}

\* C11: when an add-to-cart with quantity q merges into an existing product
\* row of quantity p, the row's quantity becomes p + q, and afterwards the
\* session user has exactly one pending Order row for that product, whose
\* quantity is p + q and whose filial is the session's branch.
C11_MergeKeepsOneOrder ==
  \A s \in Sess, target \in MergeTargets, q \in 1..2, turi \in {NONE, "t"} :
    LET user_id == _get_user_id(session[s])
        branch == _get_branch(session[s])
        matches == MergeMatches(db, user_id, target[1], target[2], "a", turi, NONE)
        r == _merge_save_product_and_order(db, user_id, branch, target[1], target[2], "a", q,
                                           turi, NONE, "", NoExtra)
    IN matches # {} =>
         LET p == First(matches)
             kept == OrdersFor(r.db, user_id, p.id, target[2])
         IN /\ r.ok
            /\ \E e \in r.db.products[target[1]] : e.id = p.id /\ e.miqdor = p.miqdor + q
            /\ Cardinality(kept) = 1
            /\ \A o \in kept : o.miqdor = p.miqdor + q /\ o.filial = branch

\* the save_profile_row bodies the claim quantifies over
AllRowEdits ==
  {[dict |-> TRUE, Id |-> id, Miqdor |-> m, Izoh |-> z, Category |-> c] :
     id \in {"1", "2"}, m \in {"2", "-1"}, z \in {NONE, "i"},
     c \in {NONE, "", "Kaplya", "Kontakt linza", "zzz"}}

\* C12: after a successful save_profile_row on a pending Order of the session
\* user, the Order row and the product row it references hold the same miqdor
\* and the same izoh, whatever Category value the request carried.
C12_EditKeepsOrderAndProductEqual ==
  \A s \in Sess, data \in AllRowEdits :
    LET r == save_profile_row(db, session[s], data, 0)
    IN r.status = "200" =>
         \A o \in r.db.orders :
           (o.id = _to_int(data.Id, 0) /\ o.user_id = session[s].UserId /\ ~o.is_sent) =>
             \A p \in ReferencedRows(r.db, o) : p.miqdor = o.miqdor /\ p.izoh = o.izoh

\* ===================================================== the save endpoints
\* One staff session adds to its cart through each of the seven save views;
\* save_oprava also with and without "turi", with two-element bodies, and with
\* a database error in the middle of the loop.
NextSave ==
  \/ SaveRangsiz({"s1"}, Lists1(ThinItems), {0})
  \/ SaveRangli({"s1"}, Lists1(ThinItems), {0})
  \/ SaveKapliya({"s1"}, Lists1(ThinItems), {0})
  \/ SaveAksessuar({"s1"}, Lists1(ThinItems), {0})
  \/ SaveAntik({"s1"}, Lists1(ThinItems), {0})
  \/ SaveGatoviy({"s1"}, Lists1(ThinItems), {0})
  \/ SaveOprava(Sess, Lists1(OpravaItems) \cup OpravaPairs, {0, 2})

SpecSave == Init /\ [][NextSave]_vars

\* the request bodies the claims about the save views quantify over
CartItems ==
  {Item("a", "1", "t", "d", NONE, NONE),
   Item("A", "2", "T", NONE, "i", NONE),
   Item(" a", "1", NONE, NONE, NONE, "Kaplya"),
   Item("b", "0", "t", NONE, NONE, NONE),
   ScalarItem}

CartBodies == Lists1(CartItems) \cup Lists2(CartItems) \cup {NotAList, List(<<>>)}

SaveViews == ProductTables

\* the save view that writes table v
SaveView(v, d, sess, payload, fault) ==
  CASE v = "Rangsiz" -> save_rangsiz(d, sess, payload, fault)
    [] v = "Rangli" -> save_rangli(d, sess, payload, fault)
    [] v = "Kapliya" -> save_kapliya(d, sess, payload, fault)
    [] v = "Aksessuar" -> save_aksessuar(d, sess, payload, fault)
    [] v = "Antikompyuter" -> save_antik(d, sess, payload, fault)
    [] v = "Gatoviy" -> save_gatoviy(d, sess, payload, fault)
    [] v = "Oprava" -> save_oprava(d, sess, payload, fault)

RECURSIVE SumMiqdor(_)
SumMiqdor(rows) ==
  IF rows = {} THEN 0
  ELSE LET r == CHOOSE x \in rows : TRUE IN r.miqdor + SumMiqdor(rows \ {r})

\* the quantity held by the rows of a product table
Quantity(d, t) == SumMiqdor(d.products[t])

\* two database states with the same rows in every cart table, by id
SameRows(d1, d2) ==
  /\ \A t \in ProductTables : Ids(d1.products[t]) = Ids(d2.products[t])
  /\ Ids(d1.orders) = Ids(d2.orders)
  /\ d1.seq = d2.seq

\* two database states with the same product tables and pending Order rows
SameCart(d1, d2) ==
  /\ d1.products = d2.products
  /\ {o \in d1.orders : ~o.is_sent} = {o \in d2.orders : ~o.is_sent}

MergeUsers == {"u1", "u2"}

MergeCategories == {"Oprava", "Kaplya"}

MergeNames == {"a", "A", "b"}

MergeOptional == {NONE, "t", "T"}

\* the rows of the target table with the merge key of the arguments
KeyRows(d, user_id, model_cls, category, nomi, turi, dioptriya) ==
  {p \in d.products[model_cls] :
     /\ p.user_id = user_id
     /\ Fold(p.category) = Fold(category)
     /\ Fold(p.nomi) = Fold(nomi)
     /\ (dioptriya \notin {NONE, ""} => p.dioptriya # NONE /\ Fold(p.dioptriya) = Fold(dioptriya))
     /\ (turi \notin {NONE, ""} => p.turi # NONE /\ Fold(p.turi) = Fold(turi))}

\* C10: _merge_save_product_and_order merges into an existing product row
\* exactly when the target table has a row with the merge key (same user_id,
\* case-insensitively equal category and nomi, and the given non-empty
\* dioptriya and turi); otherwise it creates exactly one new product row and
\* exactly one new pending Order row that references it.
C10_MergeExactlyOnKeyElseCreate ==
  \A model_cls \in {"Oprava", "Kapliya"}, user_id \in MergeUsers, category \in MergeCategories,
     nomi \in MergeNames, turi \in MergeOptional, dioptriya \in {NONE, "d"} :
    LET r == _merge_save_product_and_order(db, user_id, "b1", model_cls, category, nomi, 1,
                                           turi, dioptriya, "", NoExtra)
        key == KeyRows(db, user_id, model_cls, category, nomi, turi, dioptriya)
        newRows == r.db.products[model_cls] \ db.products[model_cls]
        newIds == Ids(r.db.products[model_cls]) \ Ids(db.products[model_cls])
        newOrders == {o \in r.db.orders : o.id \notin Ids(db.orders)}
    IN IF key # {}
         THEN /\ newIds = {}
              /\ \E p \in key : \E q \in newRows : q.id = p.id /\ q.miqdor = p.miqdor + 1
         ELSE /\ Cardinality(newIds) = 1
              /\ Cardinality(newOrders) = 1
              /\ \A o \in newOrders : ~o.is_sent /\ o.product_id \in newIds /\ o.user_id = user_id

\* ======================================================== login and users
LoginForm(userId, password, branch) ==
  [method |-> "POST", userId |-> userId, password |-> password, branch |-> branch]

UserForm(id, full_name, user_id, parol, role) ==
  [method |-> "POST", Id |-> id, FullName |-> full_name, UserId |-> user_id, Parol |-> parol,
   Role |-> role]

\* what a client may type as a password: a password it knows, or a value of
\* the parol column it has read
PasswordsTried(d) == {"p1", "p3"} \cup {u.parol : u \in d.users}

Login(S, U, W, B) ==
  \E s \in S, userId \in U, password \in W, branch \in B :
    AnswerSession(s, login_view(db, session[s], LoginForm(userId, password, branch)))

Logout(S) == \E s \in S : AnswerSession(s, logout_view(db, session[s]))

AddUser(S, P) == \E s \in S, post \in P : Answer(add_user_page_and_create(db, session[s], post))

EditUser(S, P) == \E s \in S, post \in P : Answer(edit_user(db, session[s], post))

DeleteUser(S, P) == \E s \in S, get \in P : Answer(delete_user(db, session[s], get))

AddForms == {UserForm(NONE, "N3", "u3", "p1", NONE), UserForm(NONE, "N3", "u1", "p1", NONE)}

EditForms == {UserForm("1", NONE, NONE, parol, NONE) : parol \in {NONE, "x"}}

DeleteForms == {[id |-> "2"], [id |-> "0"]}

\* nobody is logged in
InitAuth ==
  /\ db = StaffDb
  /\ session = [s \in Sess |-> EmptySession]
  /\ resp = NONE
  /\ sharing = [s \in Sess |-> Idle]
  /\ log = NoLog

\* One browser logs in and out as the legacy account u1, the other as the
\* administrator, who adds, edits and deletes accounts.
NextAuth ==
  \/ Login({"s1"}, {"u1"}, PasswordsTried(db), {NONE, "b1"})
  \/ Login({"s2"}, {"adm"}, PasswordsTried(db), {NONE})
  \/ Logout(Sess)
  \/ AddUser({"s2"}, AddForms)
  \/ EditUser({"s2"}, EditForms)
  \/ DeleteUser({"s2"}, DeleteForms)

SpecAuth == InitAuth /\ [][NextAuth]_vars

\* a stored credential that is the encoding of some password
IsEncoded(parol) == parol \in {make_password(c) : c \in Credentials}

\* the login requests the claims quantify over
LoginForms(d) ==
  {LoginForm(userId, password, branch) :
     userId \in {"u1", "u2", "adm", "u3", " u1", NONE},
     password \in PasswordsTried(d) \cup {"x", "p1 ", "", NONE},
     branch \in {NONE, "b1"}}

\* C6: login_view establishes a session (UserId, FullName and Role of the user
\* row) only if the submitted password verifies against the stored encoded
\* credential of the user with the submitted userId, or equals a stored
\* plain-text credential; otherwise it answers success=false and leaves the
\* session and the user rows unchanged.  (Surrounding blanks of the submitted
\* values do not count.)
C6_LoginOnlyWithValidCredential ==
  \A s \in Sess, post \in LoginForms(db) :
    LET r == login_view(db, session[s], post)
        password == Strip(post.password)
    IN IF r.status = "success"
         THEN \E u \in db.users :
                /\ u.user_id = Strip(post.userId)
                /\ \/ IsEncoded(u.parol) /\ check_password(password, u.parol)
                   \/ ~IsEncoded(u.parol) /\ password = u.parol
                /\ r.session.UserId = u.user_id
                /\ r.session.FullName = u.full_name
                /\ r.session.Role = u.role
         ELSE r.status = "failure" /\ r.session = session[s] /\ r.db.users = db.users

\* the account whose credential is stored as plain text in the initial state
LegacyUser == UserRow(StaffDb, "u1").id

\* C7: once a login has replaced the plain-text credential of the legacy
\* account by its encoding, no login rewrites that credential again, and a
\* login as that account succeeds only with a password that verifies against
\* it.
C7_MigrationIsOneTime ==
  [][\A u \in db.users :
       (u.id = LegacyUser /\ IsEncoded(u.parol) /\ resp' \in {"success", "failure"})
         => /\ u \in db'.users
            /\ \A s \in Sess :
                 (session'[s] # session[s] /\ session'[s].UserId = u.user_id)
                   => \E c \in Credentials : check_password(c, u.parol) /\ c # u.parol]_vars

\* ============================================================ every endpoint
IndexView(S) == \E s \in S : Answer(index_view(db, session[s]))

RangsizPage(S) == \E s \in S : Answer(rangsiz_page(db, session[s]))

RangliPage(S) == \E s \in S : Answer(rangli_page(db, session[s]))

KaplyaPage(S) == \E s \in S : Answer(kaplya_page(db, session[s]))

AksessuarPage(S) == \E s \in S : Answer(aksessuar_page(db, session[s]))

AntikompPage(S) == \E s \in S : Answer(antikomp_page(db, session[s]))

GatoviyPage(S) == \E s \in S : Answer(gatoviy_page(db, session[s]))

OpravaPage(S) == \E s \in S : Answer(oprava_page(db, session[s]))

ProfileView(S) == \E s \in S : Answer(profile_view(db, session[s]))

ArchiveView(S) == \E s \in S : Answer(archive_view(db, session[s]))

FeedbackPage(S) == \E s \in S : Answer(feedback_page(db, session[s]))

AdminPage(S) == \E s \in S : Answer(admin_page(db, session[s]))

AdminFeedbackPage(S) == \E s \in S : Answer(admin_feedback_page(db, session[s]))

TelegramChatIdPage(S) == \E s \in S : Answer(telegram_chat_id_page(db, session[s]))

GetArchives(S) == \E s \in S : Answer(get_archives(db, session[s]))

ClearAllArchives(S) == \E s \in S : Answer(clear_all_archives(db, session[s]))

DownloadAllArchivesPdf(S) == \E s \in S : Answer(download_all_archives_pdf(db, session[s]))

ClearAllFeedback(S) == \E s \in S : Answer(clear_all_feedback(db, session[s]))

ExportFeedbackPdf(S) == \E s \in S : Answer(export_feedback_pdf(db, session[s]))

DownloadOrdersPdf(S, P) == \E s \in S, req \in P : Answer(download_orders_pdf(db, session[s], req))

DownloadArchivePdf(S, P) == \E s \in S, req \in P : Answer(download_archive_pdf(db, session[s], req))

GetArchiveItems(S, P) == \E s \in S, req \in P : Answer(get_archive_items(db, session[s], req))

DeleteArchive(S, P) == \E s \in S, req \in P : Answer(delete_archive(db, session[s], req))

ShareAllArchivesTelegram(S, P) == \E s \in S, req \in P : Answer(share_all_archives_telegram(db, session[s], req))

SendFeedback(S, P) == \E s \in S, req \in P : Answer(send_feedback(db, session[s], req))

AddChat(S, P) == \E s \in S, req \in P : Answer(add_chat(db, session[s], req))

DeleteChat(S, P) == \E s \in S, req \in P : Answer(delete_chat(db, session[s], req))

\* request menus of the endpoints
Dict(id) == [dict |-> TRUE, id |-> id, ArchiveId |-> id]

NotADict == [dict |-> FALSE, id |-> NONE, ArchiveId |-> NONE]

Feedback(message, phone) == [dict |-> TRUE, message |-> message, phone |-> phone]

Telegram(token, requests, outcome) == [token |-> token, requests |-> requests, outcome |-> outcome]

\* every chat gets the document / no chat gets it / only chat c1 gets it
AllOk == [c \in ChatIds |-> "ok"]

AllFail == [c \in ChatIds |-> "raise"]

OnlyFirst == [c \in ChatIds |-> IF c = "c1" THEN "ok" ELSE "http_error"]

ChatForm(full_name, chat_id) == [FullName |-> full_name, ChatId |-> chat_id]

PdfLists == {List(<<[kind |-> "dict", Id |-> "1", Category |-> NONE]>>)}

\* a database in use: a cart line of u1, an archive sent earlier from branch
\* b1 by u1, a feedback message and a Telegram chat
GateDb ==
  [StaffDb EXCEPT
     !.products["Rangsiz"] = {[id |-> 1, user_id |-> "u1", nomi |-> "a", turi |-> "t", dioptriya |-> "d",
                               miqdor |-> 1, izoh |-> "", category |-> "Kontakt linza"]},
     !.orders = {[id |-> 1, user_id |-> "u1", product_id |-> 1, category |-> "Kontakt linza",
                  model |-> "a", dioptriya |-> "d", miqdor |-> 1, izoh |-> "-", filial |-> "b1",
                  is_sent |-> FALSE]},
     !.archives = {[id |-> 1, filial |-> "b1", user_full_name |-> "N1",
                    is_pdf_downloaded |-> TRUE, is_telegram_shared |-> FALSE]},
     !.items = {[id |-> 1, archive |-> 1, category |-> "Kaplya", model |-> "a", dioptriya |-> NONE,
                 miqdor |-> 1, izoh |-> "-"]},
     !.feedback = {[id |-> 1, full_name |-> "N2", phone |-> NONE, message |-> "m"]},
     !.chats = {[id |-> 1, full_name |-> "Boss", chat_id |-> "c1"]},
     !.seq = [t \in AllTables |->
                CASE t \in {"Rangsiz", "Order", "Archive", "ArchiveItem", "FeedBack", "TelegramChat"} -> 1
                  [] t = "Users" -> 3
                  [] OTHER -> 0]]

\* the PDF of the archive of GateDb was downloaded before it was sent
GateLog == [NoLog EXCEPT !.pdf_archives = {1}]

\* nobody is logged in; the database is in use
InitGate ==
  /\ db = GateDb
  /\ session = [s \in Sess |-> EmptySession]
  /\ resp = NONE
  /\ sharing = [s \in Sess |-> Idle]
  /\ log = GateLog

\* Two browsers, each anonymous or logged in as the staff account u1, call
\* every endpoint.
NextGate ==
  \/ Login(Sess, {"u1"}, {"p1", "x"}, {"b1"})
  \/ Logout(Sess)
  \/ IndexView(Sess)
  \/ RangsizPage(Sess)
  \/ RangliPage(Sess)
  \/ KaplyaPage(Sess)
  \/ AksessuarPage(Sess)
  \/ AntikompPage(Sess)
  \/ GatoviyPage(Sess)
  \/ OpravaPage(Sess)
  \/ SaveRangsiz(Sess, Lists1(ThinItems), {0})
  \/ SaveRangli(Sess, Lists1(ThinItems), {0})
  \/ SaveKapliya(Sess, Lists1(ThinItems), {0})
  \/ SaveAksessuar(Sess, Lists1(ThinItems), {0})
  \/ SaveAntik(Sess, Lists1(ThinItems), {0})
  \/ SaveGatoviy(Sess, Lists1(ThinItems), {0})
  \/ SaveOprava(Sess, Lists1(ThinItems), {0})
  \/ ProfileView(Sess)
  \/ SaveProfileRow(Sess, {[dict |-> TRUE, Id |-> "1", Miqdor |-> "2", Izoh |-> NONE, Category |-> NONE]}, {0})
  \/ DeleteRows(Sess, RowDeletes, {0})
  \/ DownloadOrdersPdf(Sess, PdfLists)
  \/ MarkAsSent(Sess, {List(<<"1">>)}, {0})
  \/ ArchiveView(Sess)
  \/ DownloadArchivePdf(Sess, {Dict("1")})
  \/ AdminPage(Sess)
  \/ GetArchives(Sess)
  \/ GetArchiveItems(Sess, {[archiveId |-> "1"]})
  \/ DeleteArchive(Sess, {Dict("1")})
  \/ DownloadAllArchivesPdf(Sess)
  \/ ShareAllArchivesTelegram(Sess, {Telegram(TRUE, TRUE, AllOk), Telegram(TRUE, TRUE, AllFail)})
  \/ ClearAllArchives(Sess)
  \/ FeedbackPage(Sess)
  \/ SendFeedback(Sess, {Feedback("m", NONE), NotUtf8})
  \/ AdminFeedbackPage(Sess)
  \/ ClearAllFeedback(Sess)
  \/ ExportFeedbackPdf(Sess)
  \/ AddUser(Sess, {UserForm(NONE, "N3", "u3", "p1", NONE)})
  \/ EditUser(Sess, {UserForm("2", NONE, NONE, NONE, NONE)})
  \/ DeleteUser(Sess, {[id |-> "2"]})
  \/ TelegramChatIdPage(Sess)
  \/ AddChat(Sess, {ChatForm("N1", "c2")})
  \/ DeleteChat(Sess, {[id |-> "1"]})

SpecGate == InitGate /\ [][NextGate]_vars

\* Browser s1 is anonymous or logged in as the staff account u1, browser s2
\* anonymous or logged in as the administrator; both call the endpoints of
\* the administrator.
NextAdmin ==
  \/ Login({"s1"}, {"u1"}, {"p1"}, {"b1"})
  \/ Login({"s2"}, {"adm"}, {"p3", "x"}, {NONE})
  \/ Logout(Sess)
  \/ AdminPage(Sess)
  \/ GetArchives(Sess)
  \/ GetArchiveItems(Sess, {[archiveId |-> "1"]})
  \/ DeleteArchive(Sess, {Dict("1")})
  \/ DownloadAllArchivesPdf(Sess)
  \/ ShareAllArchivesTelegram(Sess, {Telegram(TRUE, TRUE, AllOk), Telegram(TRUE, TRUE, AllFail)})
  \/ ClearAllArchives(Sess)
  \/ AdminFeedbackPage(Sess)
  \/ ClearAllFeedback(Sess)
  \/ ExportFeedbackPdf(Sess)
  \/ AddUser(Sess, {UserForm(NONE, "N3", "u3", "p1", NONE)})
  \/ EditUser(Sess, {UserForm("2", NONE, NONE, NONE, "Admin")})
  \/ DeleteUser(Sess, {[id |-> "2"]})
  \/ TelegramChatIdPage(Sess)
  \/ AddChat(Sess, {ChatForm("N1", "c2")})
  \/ DeleteChat(Sess, {[id |-> "1"]})

SpecAdmin == InitGate /\ [][NextAdmin]_vars

\* the endpoints of urls.py other than login, by the kind of their answers:
\* data for a script (JSON, PDF) or pages and redirects for the browser
JsonEndpoints ==
  {"save_rangsiz", "save_rangli", "save_kapliya", "save_aksessuar", "save_antik", "save_gatoviy",
   "save_oprava", "save_profile_row", "delete_rows", "download_orders_pdf", "mark_as_sent",
   "download_archive_pdf", "get_archives", "get_archive_items", "delete_archive",
   "download_all_archives_pdf", "share_all_archives_telegram", "clear_all_archives",
   "send_feedback", "clear_all_feedback"}

PageEndpoints ==
  {"index", "logout", "profile", "archive", "admin_page", "feedback_page", "admin_feedback_page",
   "export_feedback_pdf", "add_user", "edit_user", "delete_user", "telegram_chat_id_page",
   "add_chat", "delete_chat", "rangsiz_page", "rangli_page", "kaplya_page", "aksessuar_page",
   "antikomp_page", "gatoviy_page", "oprava_page"}

\* the operations of the administrator
AdminEndpoints ==
  {"get_archives", "get_archive_items", "delete_archive", "clear_all_archives",
   "download_all_archives_pdf", "share_all_archives_telegram", "clear_all_feedback",
   "add_user", "edit_user", "delete_user", "add_chat", "delete_chat"}

\* the requests tried on an endpoint
Requests(e) ==
  CASE e \in {"save_rangsiz", "save_rangli", "save_kapliya", "save_aksessuar", "save_antik",
              "save_gatoviy", "save_oprava"} -> Lists1(CartItems) \cup {NotAList}
    [] e = "save_profile_row" -> RowEdits \cup {[dict |-> FALSE, Id |-> NONE, Miqdor |-> NONE,
                                                 Izoh |-> NONE, Category |-> NONE]}
    [] e \in {"delete_rows", "download_orders_pdf"} -> RowDeletes \cup {NotAList}
    [] e = "mark_as_sent" -> AllSendLists \cup {NotAList}
    [] e \in {"download_archive_pdf", "delete_archive"} -> {Dict("1"), Dict("2"), Dict("0"), NotADict}
    [] e = "get_archive_items" -> {[archiveId |-> "1"], [archiveId |-> NONE]}
    [] e = "share_all_archives_telegram" ->
         {Telegram(t, TRUE, o) : t \in BOOLEAN, o \in {AllOk, AllFail}} \cup {Telegram(TRUE, FALSE, AllOk)}
    [] e = "send_feedback" -> {Feedback("m", NONE), Feedback("", "1"), NotADict}
    [] e = "add_user" -> AddForms \cup {[UserForm(NONE, NONE, NONE, NONE, NONE) EXCEPT !.method = "GET"]}
    [] e = "edit_user" -> EditForms \cup {UserForm("3", "N", "u9", "x", "User")}
    [] e = "delete_user" -> {[id |-> "1"], [id |-> "2"], [id |-> "3"], [id |-> NONE]}
    [] e = "add_chat" -> {ChatForm("N1", "c2"), ChatForm("N1", "c1"), ChatForm(NONE, NONE)}
    [] e = "delete_chat" -> {[id |-> "1"], [id |-> NONE]}
    [] OTHER -> {NONE}

\* the answer [db, status] of an endpoint to a request of a session
Handle(e, d, sess, req) ==
  CASE e = "save_rangsiz" -> save_rangsiz(d, sess, req, 0)
    [] e = "save_rangli" -> save_rangli(d, sess, req, 0)
    [] e = "save_kapliya" -> save_kapliya(d, sess, req, 0)
    [] e = "save_aksessuar" -> save_aksessuar(d, sess, req, 0)
    [] e = "save_antik" -> save_antik(d, sess, req, 0)
    [] e = "save_gatoviy" -> save_gatoviy(d, sess, req, 0)
    [] e = "save_oprava" -> save_oprava(d, sess, req, 0)
    [] e = "save_profile_row" -> save_profile_row(d, sess, req, 0)
    [] e = "delete_rows" -> delete_rows(d, sess, req, 0)
    [] e = "download_orders_pdf" -> download_orders_pdf(d, sess, req)
    [] e = "mark_as_sent" -> mark_as_sent(d, sess, req, 0)
    [] e = "download_archive_pdf" -> download_archive_pdf(d, sess, req)
    [] e = "get_archives" -> get_archives(d, sess)
    [] e = "get_archive_items" -> get_archive_items(d, sess, req)
    [] e = "delete_archive" -> delete_archive(d, sess, req)
    [] e = "download_all_archives_pdf" -> download_all_archives_pdf(d, sess)
    [] e = "share_all_archives_telegram" -> share_all_archives_telegram(d, sess, req)
    [] e = "clear_all_archives" -> clear_all_archives(d, sess)
    [] e = "send_feedback" -> send_feedback(d, sess, req)
    [] e = "clear_all_feedback" -> clear_all_feedback(d, sess)
    [] e = "index" -> index_view(d, sess)
    [] e = "logout" -> [db |-> logout_view(d, sess).db, status |-> logout_view(d, sess).status]
    [] e = "profile" -> profile_view(d, sess)
    [] e = "archive" -> archive_view(d, sess)
    [] e = "admin_page" -> admin_page(d, sess)
    [] e = "feedback_page" -> feedback_page(d, sess)
    [] e = "admin_feedback_page" -> admin_feedback_page(d, sess)
    [] e = "export_feedback_pdf" -> export_feedback_pdf(d, sess)
    [] e = "add_user" -> add_user_page_and_create(d, sess, req)
    [] e = "edit_user" -> edit_user(d, sess, req)
    [] e = "delete_user" -> delete_user(d, sess, req)
    [] e = "telegram_chat_id_page" -> telegram_chat_id_page(d, sess)
    [] e = "add_chat" -> add_chat(d, sess, req)
    [] e = "delete_chat" -> delete_chat(d, sess, req)
    [] e = "rangsiz_page" -> rangsiz_page(d, sess)
    [] e = "rangli_page" -> rangli_page(d, sess)
    [] e = "kaplya_page" -> kaplya_page(d, sess)
    [] e = "aksessuar_page" -> aksessuar_page(d, sess)
    [] e = "antikomp_page" -> antikomp_page(d, sess)
    [] e = "gatoviy_page" -> gatoviy_page(d, sess)
    [] e = "oprava_page" -> oprava_page(d, sess)

ValidatedEndpoints ==
  {"save_rangsiz", "save_rangli", "save_kapliya", "save_aksessuar", "save_antik", "save_gatoviy",
   "save_oprava", "delete_rows", "mark_as_sent", "save_profile_row", "delete_archive",
   "send_feedback"}

InvalidBodies(e) ==
  CASE e = "save_profile_row" ->
         {NotADict, NotUtf8} \cup
         {[dict |-> TRUE, Id |-> id, Miqdor |-> "2", Izoh |-> NONE, Category |-> NONE] :
            id \in {"0", "-1", "x", NONE}}
    [] e = "delete_archive" -> {NotADict, NotUtf8, Dict("0"), Dict("-1"), Dict(NONE)}
    [] e = "send_feedback" ->
         {NotADict, NotUtf8, Feedback("", "1"), Feedback(" ", NONE), Feedback(NONE, NONE)}
    [] OTHER -> {NotAList, List(<<>>), NotUtf8}

\* C13: a request of a logged-in session whose body fails validation is
\* answered with a JSON response success=false (status 400, or 403 where the
\* role check comes first), never with an unhandled error, and changes no
\* database row.
C13_InvalidBodyIsRejected ==
  \A s \in Sess :
    Truthy(session[s].UserId) =>
      \A e \in ValidatedEndpoints : \A body \in InvalidBodies(e) :
        LET r == Handle(e, db, session[s], body)
        IN r.db = db /\ r.status \in {"400", "403"}

\* ================================================================ archives
\* share_all_archives_telegram as it runs beside other requests: ShareBegin is
\* the request up to the built PDF, ShareEnd the sends and the flagging.
ShareBegin(S, P) ==
  \E s \in S, env \in P :
    /\ sharing[s] = Idle
    /\ LET job == share_prepare(db, session[s], env)
       IN IF job.status = "sending"
            THEN sharing' = [sharing EXCEPT ![s] = job] /\ UNCHANGED <<db, session, resp, log>>
            ELSE Answer(job)

ShareEnd(S, P) ==
  \E s \in S, env \in P :
    /\ sharing[s] # Idle
    /\ LET r == share_send(db, sharing[s], env)
       IN /\ Bounded(r.db)
          /\ db' = r.db
          /\ resp' = r.status
          /\ log' = Logged(log, r)
          /\ sharing' = [sharing EXCEPT ![s] = Idle]
          /\ UNCHANGED session

\* the staff account u1 and the administrator are logged in; the database is
\* in use
InitArchive ==
  /\ db = GateDb
  /\ session = [s \in Sess |-> IF s = "s1" THEN LoggedIn(UserRow(GateDb, "u1"), "b1")
                                          ELSE LoggedIn(UserRow(GateDb, "adm"), NONE)]
  /\ resp = NONE
  /\ sharing = [s \in Sess |-> Idle]
  /\ log = GateLog

\* The staff session downloads the PDF of its order (or does not) and sends
\* it; the administrator downloads, shares and deletes archives and adds a
\* chat.
NextArchive ==
  \/ DownloadOrdersPdf({"s1"}, PdfLists)
  \/ MarkAsSent({"s1"}, {List(<<"1">>), List(<<"2">>)}, {0, 3})
  \/ DownloadArchivePdf({"s1"}, {Dict("2")})
  \/ DownloadAllArchivesPdf({"s2"})
  \/ ShareBegin({"s2"}, {Telegram(TRUE, TRUE, AllOk)})
  \/ ShareEnd({"s2"}, {Telegram(TRUE, TRUE, o) : o \in {AllOk, AllFail, OnlyFirst}})
  \/ DeleteArchive({"s2"}, {Dict("1")})
  \/ ClearAllArchives({"s2"})
  \/ AddChat({"s2"}, {ChatForm("N1", "c2")})

SpecArchive == InitArchive /\ [][NextArchive]_vars

\* every way the sends to the chats can end
TelegramOutcomes == {Telegram(TRUE, TRUE, o) : o \in [ChatIds -> SendResults]}

\* C14: share_all_archives_telegram tolerates the failure of any individual
\* send: it attempts every configured chat, counts the sends Telegram
\* acknowledged, answers success with that count out of the number of chats
\* when at least one succeeded, and answers 500 with no Archive row changed
\* when none succeeded.
C14_ShareCountsAcknowledgedSends ==
  \A s \in Sess, env \in TelegramOutcomes :
    (session[s].Role = "Admin" /\ Truthy(session[s].UserId) /\ db.chats # {}) =>
      LET r == share_all_archives_telegram(db, session[s], env)
          acked == {c \in db.chats : env.outcome[c.chat_id] = "ok"}
      IN /\ r.attempted = {c.chat_id : c \in db.chats}
         /\ r.ok_count = Cardinality(acked)
         /\ r.total = Cardinality(db.chats)
         /\ IF acked # {}
              THEN r.status = "200"
              ELSE r.status = "500" /\ r.db = db

\* C14 witness: a share request has just answered success after one of its
\* two sends failed.
C14_Witness ==
  /\ resp = "200"
  /\ log.share_count = <<1, 2>>
  /\ Cardinality(db.chats) = 2

\* C15: an Archive's is_pdf_downloaded flag is true only if a PDF of that
\* archive's orders has actually been downloaded.
C15_DownloadedFlagIsTruthful ==
  \A a \in db.archives : a.is_pdf_downloaded => a.id \in log.pdf_archives

\* C16: an Archive's is_telegram_shared flag is true only if a PDF that
\* included that archive was delivered to at least one Telegram chat, also
\* when a mark_as_sent of another session creates an archive while
\* share_all_archives_telegram is running.
C16_SharedFlagIsTruthful ==
  \A a \in db.archives : a.is_telegram_shared => a.id \in log.sent_archives

\* C17: in every reachable state every ArchiveItem refers to an existing
\* Archive.
C17_ItemsHaveTheirArchive ==
  \A i \in db.items : \E a \in db.archives : a.id = i.archive

\* C17 witness: an archive has been deleted while another archive with its
\* items is still there.
C17_Witness ==
  /\ resp = "200"
  /\ db.seq["Archive"] > Cardinality(db.archives)
  /\ db.seq["ArchiveItem"] > Cardinality(db.items)
  /\ db.items # {}

\* ============================================================ user accounts
\* the administrator is logged in, the other browser is not
InitUsers ==
  /\ db = StaffDb
  /\ session = [s \in Sess |-> IF s = "s2" THEN LoggedIn(UserRow(StaffDb, "adm"), NONE)
                                          ELSE EmptySession]
  /\ resp = NONE
  /\ sharing = [s \in Sess |-> Idle]
  /\ log = NoLog

UsersAddForms ==
  {UserForm(NONE, "N3", "u3", "x", NONE),
   UserForm(NONE, "N3", "u1", "x", "User"),
   UserForm(NONE, "N3", "u3", "x", "Manager")}

UsersEditForms ==
  {UserForm("1", NONE, "u9", NONE, NONE),
   UserForm("1", NONE, "u2", "x", NONE),
   UserForm("2", "N", NONE, "x", "Admin"),
   UserForm("2", NONE, "u2", NONE, "Manager")}

\* The administrator adds, edits and deletes accounts (also with a user_id
\* that is taken and a Role that is neither Admin nor User); the other browser
\* logs in as the legacy account and as the added one.
NextUsers ==
  \/ AddUser({"s2"}, UsersAddForms)
  \/ EditUser({"s2"}, UsersEditForms)
  \/ DeleteUser({"s2"}, {[id |-> "2"]})
  \/ Login({"s1"}, {"u1", "u3"}, {"p1", "x"}, {NONE})
  \/ Logout({"s1"})

SpecUsers == InitUsers /\ [][NextUsers]_vars

\* the forms the claims about accounts quantify over
AllUserForms ==
  {UserForm(id, "N", user_id, parol, role) :
     id \in {NONE, "1", "2", "4"}, user_id \in {NONE, "u1", "u2", "u3", "u9"},
     parol \in {NONE, "x", "p1"}, role \in {NONE, "Admin", "Manager"}}

\* C18: no two Users rows share a user_id; an add_user or edit_user request
\* that would produce a duplicate user_id is rejected and changes no row.
C18_UserIdsStayUnique ==
  /\ \A u \in db.users : \A v \in db.users : u.user_id = v.user_id => u.id = v.id
  /\ \A s \in Sess, post \in AllUserForms :
       /\ (\E u \in db.users : u.user_id = _clean_str(post.UserId))
            => add_user_page_and_create(db, session[s], post).db = db
       /\ (\E u \in db.users : u.user_id = _clean_str(post.UserId) /\ u.id # _to_int(post.Id, 0))
            => edit_user(db, session[s], post).db = db

\* C18 witness: an account has been added and another one renamed, so that
\* requests with a taken user_id meet added and renamed rows.
C18_Witness ==
  /\ \E u \in db.users : u.id = 1 /\ u.user_id = "u9"
  /\ \E u \in db.users : u.id = 4 /\ u.user_id = "u3"

\* C19: in every reachable state the role of every Users row is Admin or User,
\* whatever Role value the add_user and edit_user requests carry.
C19_RolesAreAdminOrUser ==
  \A u \in db.users : u.role \in {"Admin", "User"}

\* C20: every credential written by add_user, by edit_user or by a successful
\* login is stored hashed: afterwards the stored parol is not the raw password
\* that was supplied.
C20_WrittenCredentialsAreHashed ==
  \A s \in Sess :
    /\ \A post \in AllUserForms :
         /\ \A u \in add_user_page_and_create(db, session[s], post).db.users \ db.users :
              u.parol # _clean_str(post.Parol)
         /\ Truthy(_clean_str(post.Parol)) =>
              \A u \in edit_user(db, session[s], post).db.users \ db.users :
                u.parol # _clean_str(post.Parol)
    /\ \A post \in LoginForms(db) :
         LET r == login_view(db, session[s], post)
         IN r.status = "success" =>
              \A u \in r.db.users :
                u.user_id = _clean_str(post.userId) => u.parol # _clean_str(post.password)

\* C20 witness: a login has replaced the plain-text credential of the legacy
\* account, and the administrator has added an account and set a password.
C20_Witness ==
  /\ \E u \in db.users : u.id = 1 /\ u.parol \notin RawPasswords
  /\ \E u \in db.users : u.id = 4
  /\ \E u \in db.users : u.id = 2 /\ u.role = "Admin"
  /\ Truthy(session["s1"].UserId)

\* ======================================================= frozen archives
\* the cart operations
CartEndpoints ==
  {"save_rangsiz", "save_rangli", "save_kapliya", "save_aksessuar", "save_antik", "save_gatoviy",
   "save_oprava", "save_profile_row", "delete_rows", "mark_as_sent"}

\* what an Archive row is a snapshot of
Snapshot(d, a) ==
  [filial |-> a.filial, user_full_name |-> a.user_full_name,
   items |-> {i \in d.items : i.archive = a.id}]

\* C21: once mark_as_sent has created an Archive, no cart operation of any
\* user (save_*, save_profile_row, delete_rows, another mark_as_sent) changes
\* its filial, its user_full_name or the set and contents of its ArchiveItems.
C21_ArchiveIsFrozen ==
  \A s \in Sess, e \in CartEndpoints : \A req \in Requests(e) :
    LET r == Handle(e, db, session[s], req)
    IN \A a \in db.archives :
         \E b \in r.db.archives : b.id = a.id /\ Snapshot(r.db, b) = Snapshot(db, a)

\* C21 witness: a second mark_as_sent has created its archive while the first
\* archive and its items are in place.
C21_Witness ==
  /\ resp = "200"
  /\ \E a \in db.archives : \E b \in db.archives :
       /\ a.id < b.id
       /\ Snapshot(db, a).items # {}
       /\ Snapshot(db, b).items # {}

\* ================================================================ the PDF
\* Lengths are in hundredths of a point.  The height of an A4 page is
\* 841.89 points.
A4Height == 84189

\* a row loop that never breaks the page
NeverNewPage(y) == FALSE

\* "if y < 60:" before a row
RowNeedsNewPage(y) == y < 6000

\* new_page(): the next page, y back at the top margin
new_page(st) == [st EXCEPT !.page = @ + 1, !.y = A4Height - 4000]

\* draw_table_header(): a new page first when y < 80, then the header box at
\* y with height 18
draw_table_header(st) ==
  LET st1 == IF st.y < 8000 THEN new_page(st) ELSE st
  IN [st1 EXCEPT !.draws = Append(@, [kind |-> "header", row |-> 0, page |-> st1.page,
                                      top |-> st1.y, bottom |-> st1.y - 1800]),
                 !.y = @ - 1800]

\* the body of "for r in rows:" for row r
draw_row(st, r) ==
  LET st1 == IF RowNeedsNewPage(st.y) THEN draw_table_header(new_page(st)) ELSE st
  IN [st1 EXCEPT !.draws = Append(@, [kind |-> "row", row |-> r, page |-> st1.page,
                                      top |-> st1.y, bottom |-> st1.y - 1800]),
                 !.y = @ - 1800,
                 !.done = r]

\* _build_table_pdf up to its row loop, for a title, header_lines lines and
\* the rows 1..rows: the title, the header lines and the table header are
\* drawn; draws lists the boxes drawn so far, in drawing order, each with its
\* page and its vertical extent
_build_table_pdf(header_lines, rows) ==
  draw_table_header([header_lines |-> header_lines, rows |-> rows, done |-> 0, page |-> 1,
                     y |-> A4Height - 4000 - 2200 - 1400 * header_lines - 800,
                     draws |-> <<>>])

\* a PDF is started once the one before it is complete
BuildPdf ==
  \E header_lines \in 0..MaxPdfHeaderLines, rows \in 0..MaxPdfRows :
    /\ resp.done = resp.rows
    /\ resp' = _build_table_pdf(header_lines, rows)
    /\ UNCHANGED <<db, session, sharing, log>>

\* one turn of the row loop
DrawRow ==
  /\ resp.done < resp.rows
  /\ resp' = draw_row(resp, resp.done + 1)
  /\ UNCHANGED <<db, session, sharing, log>>

InitPdf ==
  /\ db = EmptyDb
  /\ session = [s \in Sess |-> EmptySession]
  /\ resp = _build_table_pdf(0, 0)
  /\ sharing = [s \in Sess |-> Idle]
  /\ log = NoLog

NextPdf ==
  \/ BuildPdf
  \/ DrawRow

SpecPdf == InitPdf /\ [][NextPdf]_vars

\* C22: _build_table_pdf draws every input row exactly once and in order,
\* starts a new page and redraws the table header whenever the vertical
\* position has fallen below the bottom threshold (60 points) before a row,
\* and never draws a row box that extends below the bottom edge of the page.
C22_PdfRowsStayOnPage ==
  LET draws == resp.draws
      IsRow(d) == d.kind = "row"
      rowsDrawn == SelectSeq(draws, IsRow)
  IN /\ Len(rowsDrawn) = resp.done
     /\ resp.done <= resp.rows
     /\ \A i \in 1..Len(rowsDrawn) : rowsDrawn[i].row = i
     /\ \A k \in 1..Len(draws) : draws[k].bottom >= 0 /\ draws[k].top <= A4Height
     /\ \A k \in 2..Len(draws) :
          IF draws[k - 1].bottom < 6000
            THEN /\ draws[k].kind = "header"
                 /\ draws[k].page = draws[k - 1].page + 1
                 /\ draws[k].top = A4Height - 4000
            ELSE /\ draws[k].kind = "row"
                 /\ draws[k].page = draws[k - 1].page
                 /\ draws[k].top = draws[k - 1].bottom

\* C22 witness: a PDF is complete whose rows have run over to a third page.
C22_Witness ==
  /\ resp.done = resp.rows
  /\ \E k \in 1..Len(resp.draws) : resp.draws[k].page = 3 /\ resp.draws[k].kind = "row"

\* ============================================================ two requests
\* save_rangsiz with one item as it runs beside another request.  No row is
\* locked (there is no select_for_update) and no constraint covers the merge
\* key, so a second request can run its lookup before the first has written.
\* AddBegin is the request up to the lookup of the existing row, AddEnd the
\* writes that follow and the commit.
\* the arguments save_rangsiz hands to _merge_save_product_and_order
RangsizArgs(sess, item) ==
  [user_id |-> _get_user_id(sess), branch |-> _get_branch(sess),
   category |-> Or(_clean_str(Or(item.category, "Kontakt linza")), "Kontakt linza"),
   nomi |-> _clean_str(item.nomi), miqdor |-> _to_int(item.miqdor, 0),
   turi |-> Or(_clean_str(item.turi), NONE), dioptriya |-> Or(_clean_str(item.dioptriya), NONE),
   izoh |-> Or(item.izoh, "")]

\* "existing = model_cls.objects.filter(**filters).first()": the row, if any
MergeLookup(d, a) ==
  LET matches == MergeMatches(d, a.user_id, "Rangsiz", a.category, a.nomi, a.turi, a.dioptriya)
  IN IF matches # {} THEN {First(matches)} ELSE {}

\* the rest of _merge_save_product_and_order, on the row the lookup returned
MergeWrite(d, a, existing) ==
  IF existing # {}
    THEN MergeBranch(d, a.user_id, a.branch, "Rangsiz", a.category, First(existing),
                     a.miqdor, a.turi, a.dioptriya, a.izoh, NoExtra)
    ELSE CreateBranch(d, a.user_id, a.branch, "Rangsiz", a.category, a.nomi, a.miqdor,
                      a.turi, a.dioptriya, a.izoh, NoExtra)

\* the quantity asked for by the request of session s that is under way
Asked(s) == IF sharing[s].status = "merging" THEN sharing[s].args.miqdor ELSE 0

\* most quantity asked for in one run
MaxAsked == 2 * MaxQty

\* log.added is the quantity of the requests answered with success, log.raced
\* says whether a request was answered while another was under way
AddBegin(S, P) ==
  \E s \in S, item \in P :
    LET a == RangsizArgs(session[s], item)
    IN /\ sharing[s] = Idle
       /\ _session_user_or_json_401(session[s]) = NONE
       /\ Truthy(a.nomi) /\ a.miqdor > 0
       /\ log.added + Asked("s1") + Asked("s2") + a.miqdor <= MaxAsked
       /\ sharing' = [sharing EXCEPT ![s] = [status |-> "merging", args |-> a,
                                             existing |-> MergeLookup(db, a)]]
       /\ UNCHANGED <<db, session, resp, log>>

AddEnd(S, F) ==
  \E s \in S, fault \in F :
    /\ sharing[s] # Idle
    /\ db' = IF fault = 0 THEN MergeWrite(db, sharing[s].args, sharing[s].existing) ELSE db
    /\ resp' = IF fault = 0 THEN "200" ELSE "500"
    /\ log' = [added |-> log.added + (IF fault = 0 THEN Asked(s) ELSE 0),
               raced |-> log.raced \/ (fault = 0 /\ \E t \in Sess \ {s} : sharing[t] # Idle)]
    /\ sharing' = [sharing EXCEPT ![s] = Idle]
    /\ UNCHANGED session

\* the items sent: the same lens, one or two of it
RaceItems == {Item("a", "1", NONE, NONE, NONE, NONE), Item("a", "2", NONE, NONE, NONE, NONE)}

\* both sessions belong to u1; the cart is empty
InitRace ==
  /\ db = StaffDb
  /\ session = [s \in Sess |-> LoggedIn(UserRow(StaffDb, "u1"), "b1")]
  /\ resp = NONE
  /\ sharing = [s \in Sess |-> Idle]
  /\ log = [added |-> 0, raced |-> FALSE]

NextRace ==
  \/ AddBegin(Sess, RaceItems)
  \/ AddEnd(Sess, {0, 1})

SpecRace == InitRace /\ [][NextRace]_vars

\* the rows and the pending Orders of the merge key of RaceItems
RaceRows == {p \in db.products["Rangsiz"] : p.user_id = "u1" /\ p.nomi = "a"}

RaceOrders == {o \in db.orders : o.user_id = "u1" /\ o.model = "a" /\ ~o.is_sent}

\* C23: two concurrent add-to-cart requests of the same user for the same
\* merge key leave exactly one product row and one pending Order row whose
\* quantity is the sum of both (plus any prior quantity): no duplicate row
\* and no lost update.
C23_ConcurrentAddsMerge ==
  (\A s \in Sess : sharing[s] = Idle) /\ log.added > 0 =>
    /\ \E p \in RaceRows : RaceRows = {p} /\ p.miqdor = log.added
    /\ \E o \in RaceOrders : RaceOrders = {o} /\ o.miqdor = log.added

\* C23 without overlap: the requests answered so far ran one after another
C23_SerialAddsMerge == ~log.raced => C23_ConcurrentAddsMerge

\* two requests overlapped and both were answered with success
C23_Witness ==
  /\ \A s \in Sess : sharing[s] = Idle
  /\ log.raced
  /\ log.added >= 2
  /\ resp = "200"

\* mark_as_sent as it runs beside another request: it reads the Order rows
\* before its transaction begins and locks none of them.  MarkBegin is the
\* request up to the list of orders, MarkEnd the transaction.
\* log.archived holds <<order id, archive id>> for every order a request
\* answered with success has put into an archive, log.raced says whether a
\* request was answered with success while another was under way.
MarkBegin(S, P) ==
  \E s \in S, payload \in P :
    /\ sharing[s] = Idle
    /\ LET r == mark_as_sent(db, session[s], payload, 0)
       IN IF r.status = "200"
            THEN /\ sharing' = [sharing EXCEPT ![s] =
                      [status |-> "archiving",
                       orders |-> SelectedOrders(db, OrderIds(payload.items), _get_user_id(session[s])),
                       branch |-> _get_branch(session[s]),
                       full_name |-> _get_full_name(session[s])]]
                 /\ UNCHANGED <<db, session, resp, log>>
            ELSE /\ db' = r.db
                 /\ resp' = r.status
                 /\ UNCHANGED <<session, sharing, log>>

MarkEnd(S, F) ==
  \E s \in S, fault \in F :
    /\ sharing[s] # Idle
    /\ LET job == sharing[s]
           r == MarkAsSentBody(db, job.orders, job.branch, job.full_name, fault)
       IN /\ db' = Atomic(db, r)
          /\ resp' = IF r.ok THEN "200" ELSE "500"
          /\ log' = IF r.ok
                      THEN [archived |-> log.archived \cup
                                          {<<o, NextId(db, "Archive")>> : o \in Ids(job.orders)},
                            raced |-> log.raced \/ \E t \in Sess \ {s} : sharing[t] # Idle]
                      ELSE log
    /\ sharing' = [sharing EXCEPT ![s] = Idle]
    /\ UNCHANGED session

\* the cart of u1 after two lenses were added
CartDb ==
  save_rangsiz(StaffDb, LoggedIn(UserRow(StaffDb, "u1"), "b1"),
               List(<<Item("a", "1", NONE, NONE, NONE, NONE), Item("b", "2", NONE, NONE, NONE, NONE)>>),
               0).db

\* both sessions belong to u1, whose cart holds two orders
InitSend ==
  /\ db = CartDb
  /\ session = [s \in Sess |-> LoggedIn(UserRow(StaffDb, "u1"), "b1")]
  /\ resp = NONE
  /\ sharing = [s \in Sess |-> Idle]
  /\ log = [archived |-> {}, raced |-> FALSE]

NextSend ==
  \/ MarkBegin(Sess, SendLists)
  \/ MarkEnd(Sess, {0, 3})

SpecSend == InitSend /\ [][NextSend]_vars

\* C25: two concurrent mark_as_sent requests for the same pending Orders
\* archive each Order at most once: no Order is put into two archives.
C25_OrderArchivedOnce ==
  \A p \in log.archived, q \in log.archived : p[1] = q[1] => p[2] = q[2]

\* C25 without overlap: the requests answered so far ran one after another
C25_SerialOrderArchivedOnce == ~log.raced => C25_OrderArchivedOnce

\* C24: no cart operation of one user's session changes or deletes a product
\* row or an Order row whose user_id is a different user's, whatever category
\* and id values the request carries.
C24_OtherUsersRowsUntouched ==
  \A s \in Sess, e \in CartEndpoints : \A req \in Requests(e) :
    LET r == Handle(e, db, session[s], req)
        me == _get_user_id(session[s])
    IN /\ \A t \in ProductTables : \A p \in db.products[t] :
            p.user_id # me => p \in r.db.products[t]
       /\ \A o \in db.orders : o.user_id # me => o \in r.db.orders

\* ============================================================== ownership
\* the archives archive_view renders for a session
ListedArchives(d, sess) ==
  IF _session_user_or_redirect(sess) # NONE THEN {}
  ELSE IF sess.Role # "Admin"
    THEN {a \in d.archives : a.filial = _get_branch(sess) /\ a.user_full_name = _get_full_name(sess)}
    ELSE d.archives

\* u1 has two orders in the cart and is logged in at branch b1; the
\* administrator is logged in
InitOwn ==
  /\ db = CartDb
  /\ session = [s \in Sess |-> IF s = "s1" THEN LoggedIn(UserRow(StaffDb, "u1"), "b1")
                                          ELSE LoggedIn(UserRow(StaffDb, "adm"), NONE)]
  /\ resp = NONE
  /\ sharing = [s \in Sess |-> Idle]
  /\ log = NoLog

\* the accounts the administrator adds: one has the full name of u1
OwnAddForms == {UserForm(NONE, "N1", "u3", "x", NONE), UserForm(NONE, "N3", "u4", "x", NONE)}

\* u1 sends its orders; the administrator adds accounts; the second session
\* logs in as one of them or as the administrator again; both download
NextOwn ==
  \/ MarkAsSent({"s1"}, {List(<<"1">>), List(<<"2">>)}, {0})
  \/ AddUser({"s2"}, OwnAddForms)
  \/ Login({"s2"}, {"u3", "u4", "adm"}, {"x", "p3"}, {"b1", NONE})
  \/ DownloadArchivePdf(Sess, {Dict("1"), Dict("2")})

SpecOwn == InitOwn /\ [][NextOwn]_vars

\* C26: a non-admin session can list (archive_view) and download
\* (download_archive_pdf) only archives this same user created with
\* mark_as_sent; for any other archive download_archive_pdf returns 403 and
\* does not set is_pdf_downloaded.
C26_OnlyOwnArchives ==
  \A s \in Sess :
    Truthy(session[s].UserId) /\ session[s].Role # "Admin" =>
      \A a \in db.archives :
        <<a.id, _get_user_id(session[s])>> \notin log.created_by =>
          LET r == download_archive_pdf(db, session[s], Dict(ToString(a.id)))
          IN /\ a \notin ListedArchives(db, session[s])
             /\ r.status = "403"
             /\ r.db = db

\* ================================================================== roles
\* the administrator is logged in in one browser; nobody in the other
\* The administrator promotes, demotes and deletes the account u2; the other
\* browser logs in as u2, logs out, and calls operations of the administrator.
NextRole ==
  \/ EditUser({"s2"}, {UserForm("2", NONE, NONE, NONE, "Admin"), UserForm("2", NONE, NONE, NONE, NONE)})
  \/ DeleteUser({"s2"}, {[id |-> "2"]})
  \/ Login({"s1"}, {"u2"}, {"p2"}, {NONE, "b1"})
  \/ Logout({"s1"})
  \/ AddUser({"s1"}, {UserForm(NONE, "N3", "u3", "x", NONE)})
  \/ AddChat({"s1"}, {ChatForm("N", "c1")})
  \/ GetArchives({"s1"})

SpecRole == InitUsers /\ [][NextRole]_vars

\* the Users rows that make the user of a session an administrator now
AdminRowsOf(d, sess) == {u \in d.users : u.user_id = sess.UserId /\ u.role = "Admin"}

\* C27: operations of the administrator are carried out only for users whose
\* current Users row has role Admin: once an administrator has been demoted
\* or deleted, the requests of that user's existing session to these
\* endpoints are rejected.
C27_DemotedAdminIsRejected ==
  \A s \in Sess :
    Truthy(session[s].UserId) /\ AdminRowsOf(db, session[s]) = {} =>
      \A e \in AdminEndpoints : \A req \in Requests(e) :
        LET r == Handle(e, db, session[s], req)
        IN r.db = db /\ r.status \in {"401", "403", "redirect:/", "redirect:/login/"}

\* C27 for sessions that logged in after the last change of their role
C27_FreshSessionIsRejected ==
  \A s \in Sess :
    Truthy(session[s].UserId) /\ AdminRowsOf(db, session[s]) = {} /\ session[s].Role # "Admin" =>
      \A e \in AdminEndpoints : \A req \in Requests(e) :
        LET r == Handle(e, db, session[s], req)
        IN r.db = db /\ r.status \in {"401", "403", "redirect:/", "redirect:/login/"}

Submitted(f) == IF Truthy(_clean_str(f.branch)) THEN _clean_str(f.branch) ELSE "-"

\* C29: after a successful login the session's Branch is the branch submitted
\* with that login, or unset (read as "-") when none was submitted; it is
\* never the branch left in the session by an earlier login.
C29_BranchIsTheSubmittedOne ==
  \A s \in Sess : \A f \in LoginForms(db) :
    LET l == login_view(db, session[s], f)
    IN l.status = "success" => _get_branch(l.session) = Submitted(f)

\* C29 for a session that holds no Branch when the login arrives
C29_BranchOfFirstLogin ==
  \A s \in Sess : \A f \in LoginForms(db) :
    LET l == login_view(db, session[s], f)
    IN l.status = "success" /\ ~Truthy(session[s].Branch) => _get_branch(l.session) = Submitted(f)

\* ========================================================= skipped items
SaveEndpoints ==
  {"save_rangsiz", "save_rangli", "save_kapliya", "save_aksessuar", "save_antik", "save_gatoviy",
   "save_oprava"}

\* items with a name and a positive quantity, with and without "turi"
GoodItems ==
  {Item("a", "1", "t", NONE, NONE, NONE),
   Item("c", "2", "t", "d", "i", NONE),
   Item("a", "1", NONE, NONE, NONE, NONE)}

\* items with an empty name, or a quantity that is no positive integer
SkippedItems ==
  {Item("", "1", "t", NONE, NONE, NONE),
   Item(" ", "1", "t", NONE, NONE, NONE),
   Item(NONE, "1", "t", NONE, NONE, NONE),
   Item("b", "0", "t", NONE, NONE, NONE),
   Item("b", "-1", "t", NONE, NONE, NONE),
   Item("b", "x", "t", NONE, NONE, NONE),
   Item("b", NONE, "t", NONE, NONE, NONE)}

\* every product row and every Order row has a quantity of at least 1
QuantitiesPositive(d) ==
  /\ \A t \in ProductTables : \A p \in d.products[t] : p.miqdor >= 1
  /\ \A o \in d.orders : o.miqdor >= 1

\* the items of G sent to e together with items to skip: the answer is
\* success and the database is the one the good item alone leaves
SkipsAround(G) ==
  \A s \in Sess, e \in SaveEndpoints, k \in SkippedItems :
    /\ Handle(e, db, session[s], List(<<k>>)) = [db |-> db, status |-> "200"]
    /\ \A g \in G :
         LET alone == Handle(e, db, session[s], List(<<g>>))
         IN \A body \in {List(<<g, k>>), List(<<k, g>>), List(<<k, g, k>>)} :
              LET r == Handle(e, db, session[s], body)
              IN /\ r.status = "200"
                 /\ r.db = alone.db
                 /\ r.db # db
                 /\ QuantitiesPositive(r.db)

\* C30: in a save_* request the items with an empty name or a quantity that
\* is not a positive integer are skipped without affecting the other items:
\* the valid items are all applied, the request still reports success, and no
\* product or Order row is ever created by a save_* endpoint with a quantity
\* less than 1.
C30_InvalidItemsAreSkipped == QuantitiesPositive(db) /\ SkipsAround(GoodItems)

\* C30 for valid items that carry a "turi"
C30_SkippedBesideItemsWithTuri ==
  QuantitiesPositive(db) /\ SkipsAround({g \in GoodItems : g.turi # NONE})

====
